---- MODULE Spec2Model ----
(***************************************************************************)
(* Model of the form-validation utilities of the event app                 *)
(* (utils/validation) and of the calls the screens make to them.           *)
(*                                                                         *)
(* Text is modelled at character level: a JavaScript string is a sequence  *)
(* of one-character strings, so that trim, split, toLowerCase, the regular *)
(* expressions and Date parsing are computed, not assumed.  The messages   *)
(* the validators emit are TLA+ strings with the source's wording.         *)
(* Instants (Date.getTime()) are counted in minutes since the epoch: every *)
(* instant the model builds is a whole number of minutes.                  *)
(***************************************************************************)
EXTENDS Integers, Sequences, FiniteSets, TLC

\* A call of a validator: its position, the function, its argument, the
\* clock it reads and what it returned.
VARIABLES pc, fn, args, now, tz, result

\* A mounted screen: its component state, the store requests in flight, the
\* user action last run, the number of store-mutating calls issued so far
\* and the attendees and sessions the store holds.
VARIABLES ui, pending, lastAction, seq, store

callVars == <<pc, fn, args, now, tz, result>>

screenVars == <<ui, pending, lastAction, seq, store>>

vars == <<pc, fn, args, now, tz, result, ui, pending, lastAction, seq, store>>

(***************************************************************************)
(* Characters and strings                                                  *)
(***************************************************************************)

\* The value of a field that is not set on the record (JavaScript undefined).
Undefined == <<"undefined">>

\* JavaScript truthiness of a string-or-undefined value.
Truthy(s) == s # Undefined /\ s # <<>>

\* Characters matched by \s in the regular expressions and removed by trim().
WhiteSpace == {" ", "\t", "\n", "\r"}

Digits == {"0", "1", "2", "3", "4", "5", "6", "7", "8", "9"}

HexDigits == Digits \cup {"a", "b", "c", "d", "e", "f", "A", "B", "C", "D", "E", "F"}

UpperCase == <<"A", "B", "C", "D", "E", "F", "G", "H", "I", "J", "K", "L", "M",
               "N", "O", "P", "Q", "R", "S", "T", "U", "V", "W", "X", "Y", "Z">>

LowerCase == <<"a", "b", "c", "d", "e", "f", "g", "h", "i", "j", "k", "l", "m",
               "n", "o", "p", "q", "r", "s", "t", "u", "v", "w", "x", "y", "z">>

Letters == {UpperCase[i] : i \in DOMAIN UpperCase} \cup {LowerCase[i] : i \in DOMAIN LowerCase}

DigitVal(c) ==
    CASE c = "0" -> 0 [] c = "1" -> 1 [] c = "2" -> 2 [] c = "3" -> 3 [] c = "4" -> 4
      [] c = "5" -> 5 [] c = "6" -> 6 [] c = "7" -> 7 [] c = "8" -> 8 [] c = "9" -> 9

SetMin(S) == CHOOSE x \in S : \A y \in S : x <= y

SetMax(S) == CHOOSE x \in S : \A y \in S : x >= y

\* Number(s) for a string of decimal digits.
RECURSIVE ToNumber(_)
ToNumber(s) ==
    IF Len(s) = 0 THEN 0
    ELSE 10 * ToNumber(SubSeq(s, 1, Len(s) - 1)) + DigitVal(s[Len(s)])

AllIn(s, S) == \A i \in 1..Len(s) : s[i] \in S

\* String.prototype.trim
Trim(s) ==
    LET keep == {i \in 1..Len(s) : s[i] \notin WhiteSpace}
    IN  IF keep = {} THEN <<>> ELSE SubSeq(s, SetMin(keep), SetMax(keep))

\* String.prototype.split with a one-character separator.
Split(s, sep) ==
    LET P == {i \in 1..Len(s) : s[i] = sep}
        n == Cardinality(P)
        Pos(k) == CHOOSE i \in P : Cardinality({j \in P : j < i}) = k - 1
        first(k) == IF k = 1 THEN 1 ELSE Pos(k - 1) + 1
        last(k) == IF k = n + 1 THEN Len(s) ELSE Pos(k) - 1
    IN  [k \in 1..(n + 1) |-> SubSeq(s, first(k), last(k))]

LowerChar(c) ==
    IF \E i \in DOMAIN UpperCase : UpperCase[i] = c
    THEN LowerCase[CHOOSE i \in DOMAIN UpperCase : UpperCase[i] = c]
    ELSE c

\* String.prototype.toLowerCase
ToLowerCase(s) == [i \in 1..Len(s) |-> LowerChar(s[i])]

\* s.replace(/[...]/g, ''): s without the characters of S.
Remove(s, S) == SelectSeq(s, LAMBDA c : c \notin S)

\* The text of a character sequence, as it appears inside a message.
RECURSIVE Str(_)
Str(s) == IF Len(s) = 0 THEN "" ELSE s[1] \o Str(Tail(s))

\* Array.prototype.join over message texts.
RECURSIVE Join(_, _)
Join(parts, sep) ==
    IF Len(parts) = 0 THEN ""
    ELSE IF Len(parts) = 1 THEN parts[1]
    ELSE parts[1] \o sep \o Join(Tail(parts), sep)

\* n copies of the character c.
Repeat(c, n) == [i \in 1..n |-> c]

(***************************************************************************)
(* ValidationError and ValidationResult                                    *)
(***************************************************************************)

Err(f, m) == [field |-> f, message |-> m]

\* The return statement shared by the validators: isValid is derived.
Verdict(errors) == [isValid |-> Len(errors) = 0, errors |-> errors]

When(cond, e) == IF cond THEN <<e>> ELSE <<>>

(***************************************************************************)
(* Date: the ECMAScript date-time string format, for the forms             *)
(* YYYY-MM-DD (UTC midnight) and YYYY-MM-DDTHH:mm (local time).  Any other  *)
(* text is taken as unparseable (Invalid Date).                            *)
(***************************************************************************)

MinutesPerHour == 60

MinutesPerDay == 1440

IsLeapYear(y) == (y % 4 = 0 /\ y % 100 # 0) \/ y % 400 = 0

DaysInMonth(y, m) ==
    IF m = 2 THEN (IF IsLeapYear(y) THEN 29 ELSE 28)
    ELSE IF m \in {4, 6, 9, 11} THEN 30 ELSE 31

\* Days from 1970-01-01 to the civil date y-m-d (MakeDay).
DaysFromCivil(y, m, d) ==
    LET yy == IF m <= 2 THEN y - 1 ELSE y
        era == yy \div 400
        yoe == yy - era * 400
        mp == IF m > 2 THEN m - 3 ELSE m + 9
        doy == (153 * mp + 2) \div 5 + d - 1
        doe == yoe * 365 + yoe \div 4 - yoe \div 100 + doy
    IN  era * 146097 + doe - 719468

IsDateOnly(s) ==
    /\ Len(s) = 10
    /\ s[5] = "-" /\ s[8] = "-"
    /\ AllIn(SubSeq(s, 1, 4), Digits)
    /\ AllIn(SubSeq(s, 6, 7), Digits)
    /\ AllIn(SubSeq(s, 9, 10), Digits)
    /\ ToNumber(SubSeq(s, 6, 7)) \in 1..12
    /\ ToNumber(SubSeq(s, 9, 10)) \in
           1..DaysInMonth(ToNumber(SubSeq(s, 1, 4)), ToNumber(SubSeq(s, 6, 7)))

IsDateTime(s) ==
    /\ Len(s) = 16
    /\ IsDateOnly(SubSeq(s, 1, 10))
    /\ s[11] = "T" /\ s[14] = ":"
    /\ AllIn(SubSeq(s, 12, 13), Digits)
    /\ AllIn(SubSeq(s, 15, 16), Digits)
    /\ ToNumber(SubSeq(s, 12, 13)) \in 0..23
    /\ ToNumber(SubSeq(s, 15, 16)) \in 0..59

\* !isNaN(new Date(s).getTime())
DateParses(s) == IsDateOnly(s) \/ IsDateTime(s)

\* new Date(s).getTime() in minutes, for a text that parses.  A date-only
\* form is UTC; a date-time form without offset is local time, tz minutes
\* behind UTC (Date.prototype.getTimezoneOffset).
DateValue(s) ==
    LET day == DaysFromCivil(ToNumber(SubSeq(s, 1, 4)), ToNumber(SubSeq(s, 6, 7)),
                             ToNumber(SubSeq(s, 9, 10)))
    IN  IF Len(s) = 10 THEN day * MinutesPerDay
        ELSE day * MinutesPerDay + ToNumber(SubSeq(s, 12, 13)) * MinutesPerHour
                 + ToNumber(SubSeq(s, 15, 16)) + tz

\* const today = new Date(); today.setHours(0, 0, 0, 0): local midnight.
Today == ((now - tz) \div MinutesPerDay) * MinutesPerDay + tz

\* Math.ceil(a / b) for b > 0.
CeilDiv(a, b) == -((-a) \div b)

(***************************************************************************)
(* Primitive validators                                                    *)
(***************************************************************************)

\* /^[^\s@]+@[^\s@]+\.[^\s@]+$/
validateEmail(email) ==
    \E i, j \in 1..Len(email) :
        /\ 1 < i /\ i + 1 < j /\ j < Len(email)
        /\ email[i] = "@" /\ email[j] = "."
        /\ \A k \in 1..Len(email) :
               k # i => email[k] \notin WhiteSpace \cup {"@"}

\* The phone pattern with one further digit allowed: {0,16}.
validatePhoneSeventeenDigits(phone) ==
    LET stripped == Remove(phone, WhiteSpace \cup {"-", "(", ")"})
        rest == IF Len(stripped) > 0 /\ stripped[1] = "+" THEN Tail(stripped) ELSE stripped
    IN  /\ Len(rest) \in 1..17
        /\ rest[1] \in Digits \ {"0"}
        /\ AllIn(rest, Digits)

\* /^[+]?[1-9][\d]{0,15}$/ on phone.replace(/[\s\-()]/g, '')
validatePhone(phone) ==
    LET stripped == Remove(phone, WhiteSpace \cup {"-", "(", ")"})
        rest == IF Len(stripped) > 0 /\ stripped[1] = "+" THEN Tail(stripped) ELSE stripped
    IN  /\ Len(rest) \in 1..16
        /\ rest[1] \in Digits \ {"0"}
        /\ AllIn(rest, Digits)

SpecialSchemes == {"http", "https", "ftp", "ws", "wss"}

\* The text before the first character of S, or all of it.
Before(s, S) ==
    LET P == {i \in 1..Len(s) : s[i] \in S}
    IN  IF P = {} THEN s ELSE SubSeq(s, 1, SetMin(P) - 1)

\* The text after the first character of S, or none.
After(s, S) ==
    LET P == {i \in 1..Len(s) : s[i] \in S}
    IN  IF P = {} THEN <<>> ELSE SubSeq(s, SetMin(P) + 1, Len(s))

\* The text from the first character outside S on.
SkipAll(s, S) ==
    LET P == {i \in 1..Len(s) : s[i] \notin S}
    IN  IF P = {} THEN <<>> ELSE SubSeq(s, SetMin(P), Len(s))

\* The text after the last character of S, or all of it.
AfterLast(s, S) ==
    LET P == {i \in 1..Len(s) : s[i] \in S}
    IN  IF P = {} THEN s ELSE SubSeq(s, SetMax(P) + 1, Len(s))

\* Host and port of a special scheme: a non-empty host of host characters
\* and an optional numeric port.
UrlHostPortParses(hostport) ==
    /\ Len(Before(hostport, {":"})) > 0
    /\ AllIn(Before(hostport, {":"}), Letters \cup Digits \cup {".", "-", "_"})
    /\ AllIn(After(hostport, {":"}), Digits)
    /\ Len(After(hostport, {":"})) <= 5

\* The text after "scheme:".  Special schemes: slashes, then the authority
\* up to the path, query or fragment, credentials dropped.
UrlRestParses(scheme, rest) ==
    IF Str(scheme) \in SpecialSchemes
    THEN UrlHostPortParses(AfterLast(Before(SkipAll(rest, {"/", "\\"}),
                                            {"/", "\\", "?", "#"}), {"@"}))
    ELSE AllIn(rest, Letters \cup Digits \cup {".", "-", "_", "/", ":", "@", "?", "=", "+"})

UrlSchemeParses(scheme) ==
    /\ Len(scheme) > 0
    /\ scheme[1] \in Letters
    /\ AllIn(scheme, Letters \cup Digits \cup {"+", "-", "."})

\* The URL parser without a base URL: the text needs a scheme, and a
\* special scheme needs a host.
UrlParses(input) ==
    /\ \E i \in 1..Len(input) : input[i] = ":"
    /\ UrlSchemeParses(Before(input, {":"}))
    /\ UrlRestParses(ToLowerCase(Before(input, {":"})), After(input, {":"}))

\* new URL(url) does not throw.
validateUrl(url) == UrlParses(Remove(Trim(url), {"\t", "\n", "\r"}))

\* A pattern that takes any 3 to 6 hexadecimal digits after the '#'.
validateColorThreeToSix(color) ==
    /\ Len(color) \in 4..7
    /\ color[1] = "#"
    /\ AllIn(Tail(color), HexDigits)

\* /^#([A-Fa-f0-9]{6}|[A-Fa-f0-9]{3})$/
validateColor(color) ==
    /\ Len(color) \in {4, 7}
    /\ color[1] = "#"
    /\ AllIn(Tail(color), HexDigits)

\* if (!date) return false; then the parsed Date must not be NaN.
validateDate(date) == Truthy(date) /\ DateParses(date)

\* The time pattern with the hours of the twenties running to 24: 2[0-4].
validateTimeUpToTwentyFour(time) ==
    LET n == Len(time)
        hour == SubSeq(time, 1, n - 3)
    IN  /\ n \in {4, 5}
        /\ time[n - 2] = ":"
        /\ time[n - 1] \in {"0", "1", "2", "3", "4", "5"}
        /\ time[n] \in Digits
        /\ \/ Len(hour) = 1 /\ hour[1] \in Digits
           \/ Len(hour) = 2 /\ hour[1] \in {"0", "1"} /\ hour[2] \in Digits
           \/ Len(hour) = 2 /\ hour[1] = "2" /\ hour[2] \in {"0", "1", "2", "3", "4"}

\* /^([0-1]?[0-9]|2[0-3]):[0-5][0-9]$/
validateTime(time) ==
    LET n == Len(time)
        hour == SubSeq(time, 1, n - 3)
    IN  /\ n \in {4, 5}
        /\ time[n - 2] = ":"
        /\ time[n - 1] \in {"0", "1", "2", "3", "4", "5"}
        /\ time[n] \in Digits
        /\ \/ Len(hour) = 1 /\ hour[1] \in Digits
           \/ Len(hour) = 2 /\ hour[1] \in {"0", "1"} /\ hour[2] \in Digits
           \/ Len(hour) = 2 /\ hour[1] = "2" /\ hour[2] \in {"0", "1", "2", "3"}

(***************************************************************************)
(* Entity validators.  Each one appends to an error list rule by rule; the *)
(* list is written here as the concatenation of the rules' contributions,  *)
(* in the order of the source.                                             *)
(***************************************************************************)

\* !x?.trim(): the field is missing, empty or all white space.
Blank(s) == s = Undefined \/ Len(Trim(s)) = 0

MaxEventDays == 365

MinSessionMinutes == 15

MaxSessionMinutes == 480

MaxCsvErrors == 10

EventNameErrors(eventData) ==
    IF Blank(eventData.name)
    THEN <<Err("name", "Event name is required")>>
    ELSE IF Len(eventData.name) < 3
    THEN <<Err("name", "Event name must be at least 3 characters long")>>
    ELSE IF Len(eventData.name) > 100
    THEN <<Err("name", "Event name must be less than 100 characters")>>
    ELSE <<>>

EventStartDateErrors(eventData) ==
    IF ~Truthy(eventData.start_date)
    THEN <<Err("start_date", "Start date is required")>>
    ELSE IF ~validateDate(eventData.start_date)
    THEN <<Err("start_date", "Please enter a valid start date")>>
    ELSE <<>>

EventEndDateErrors(eventData) ==
    IF ~Truthy(eventData.end_date)
    THEN <<Err("end_date", "End date is required")>>
    ELSE IF ~validateDate(eventData.end_date)
    THEN <<Err("end_date", "Please enter a valid end date")>>
    ELSE <<>>

\* The date-range rules with the end compared to the start by <=.
EventDateRangeErrorsNotAfter(eventData) ==
    IF /\ Truthy(eventData.start_date) /\ Truthy(eventData.end_date)
       /\ validateDate(eventData.start_date) /\ validateDate(eventData.end_date)
    THEN LET startDate == DateValue(eventData.start_date)
             endDate == DateValue(eventData.end_date)
             daysDiff == CeilDiv(endDate - startDate, MinutesPerDay)
         IN  When(startDate < Today,
                  Err("start_date", "Start date cannot be in the past"))
             \o When(endDate <= startDate,
                     Err("end_date", "End date must be after start date"))
             \o When(daysDiff > MaxEventDays,
                     Err("end_date", "Event duration cannot exceed 365 days"))
    ELSE <<>>

\* The date-range rules with the day span rounded down: Math.floor.
EventDateRangeErrorsFloor(eventData) ==
    IF /\ Truthy(eventData.start_date) /\ Truthy(eventData.end_date)
       /\ validateDate(eventData.start_date) /\ validateDate(eventData.end_date)
    THEN LET startDate == DateValue(eventData.start_date)
             endDate == DateValue(eventData.end_date)
             daysDiff == (endDate - startDate) \div MinutesPerDay
         IN  When(startDate < Today,
                  Err("start_date", "Start date cannot be in the past"))
             \o When(endDate < startDate,
                     Err("end_date", "End date must be after start date"))
             \o When(daysDiff > MaxEventDays,
                     Err("end_date", "Event duration cannot exceed 365 days"))
    ELSE <<>>

\* The three date-range rules, run when both dates parse.
EventDateRangeErrors(eventData) ==
    IF /\ Truthy(eventData.start_date) /\ Truthy(eventData.end_date)
       /\ validateDate(eventData.start_date) /\ validateDate(eventData.end_date)
    THEN LET startDate == DateValue(eventData.start_date)
             endDate == DateValue(eventData.end_date)
             daysDiff == CeilDiv(endDate - startDate, MinutesPerDay)
         IN  When(startDate < Today,
                  Err("start_date", "Start date cannot be in the past"))
             \o When(endDate < startDate,
                     Err("end_date", "End date must be after start date"))
             \o When(daysDiff > MaxEventDays,
                     Err("end_date", "Event duration cannot exceed 365 days"))
    ELSE <<>>

EventOptionalErrors(eventData) ==
    When(Truthy(eventData.description) /\ Len(eventData.description) > 500,
         Err("description", "Description must be less than 500 characters"))
    \o When(Truthy(eventData.organizer_email) /\ ~validateEmail(eventData.organizer_email),
            Err("organizer_email", "Please enter a valid email address"))
    \o When(Truthy(eventData.organizer_phone) /\ ~validatePhone(eventData.organizer_phone),
            Err("organizer_phone", "Please enter a valid phone number"))
    \o When(Truthy(eventData.organization_website)
                /\ ~validateUrl(eventData.organization_website),
            Err("organization_website", "Please enter a valid website URL"))
    \o When(Truthy(eventData.primary_color) /\ ~validateColor(eventData.primary_color),
            Err("primary_color", "Please enter a valid hex color code"))
    \o When(Truthy(eventData.accent_color) /\ ~validateColor(eventData.accent_color),
            Err("accent_color", "Please enter a valid hex color code"))
    \o When(Truthy(eventData.organization_name) /\ Len(eventData.organization_name) > 100,
            Err("organization_name", "Organization name must be less than 100 characters"))
    \o When(Truthy(eventData.organizer_name) /\ Len(eventData.organizer_name) > 100,
            Err("organizer_name", "Organizer name must be less than 100 characters"))

\* The validator returning at the first rule group that fails.
validateEventSetupFirstFailure(eventData) ==
    IF Len(EventNameErrors(eventData)) > 0 THEN Verdict(EventNameErrors(eventData))
    ELSE IF Len(EventStartDateErrors(eventData)) > 0
    THEN Verdict(EventStartDateErrors(eventData))
    ELSE Verdict(EventEndDateErrors(eventData)
                 \o EventDateRangeErrors(eventData)
                 \o EventOptionalErrors(eventData))

validateEventSetup(eventData) ==
    Verdict(EventNameErrors(eventData)
            \o EventStartDateErrors(eventData)
            \o EventEndDateErrors(eventData)
            \o EventDateRangeErrors(eventData)
            \o EventOptionalErrors(eventData))

SessionTitleErrors(session) ==
    IF Blank(session.title)
    THEN <<Err("title", "Session title is required")>>
    ELSE IF Len(session.title) < 3
    THEN <<Err("title", "Session title must be at least 3 characters long")>>
    ELSE IF Len(session.title) > 200
    THEN <<Err("title", "Session title must be less than 200 characters")>>
    ELSE <<>>

SessionRequiredErrors(session) ==
    (IF ~Truthy(session.start_time)
     THEN <<Err("start_time", "Start time is required")>>
     ELSE When(~validateTime(session.start_time),
               Err("start_time", "Please enter a valid start time")))
    \o (IF ~Truthy(session.end_time)
        THEN <<Err("end_time", "End time is required")>>
        ELSE When(~validateTime(session.end_time),
                  Err("end_time", "Please enter a valid end time")))
    \o (IF ~Truthy(session.date)
        THEN <<Err("date", "Session date is required")>>
        ELSE When(~validateDate(session.date),
                  Err("date", "Please enter a valid date")))

\* const [hour, min] = time.split(':').map(Number); hour * 60 + min
MinutesOfDay(time) ==
    LET parts == Split(time, ":")
    IN  ToNumber(parts[1]) * MinutesPerHour + ToNumber(parts[2])

\* The time-range rules with the lower duration bound compared by <=.
SessionTimeRangeErrorsOffByOne(session) ==
    IF /\ Truthy(session.start_time) /\ Truthy(session.end_time)
       /\ validateTime(session.start_time) /\ validateTime(session.end_time)
    THEN LET startMinutes == MinutesOfDay(session.start_time)
             endMinutes == MinutesOfDay(session.end_time)
             durationMinutes == endMinutes - startMinutes
         IN  When(endMinutes <= startMinutes,
                  Err("end_time", "End time must be after start time"))
             \o When(durationMinutes <= MinSessionMinutes,
                     Err("end_time", "Session must be at least 15 minutes long"))
             \o When(durationMinutes > MaxSessionMinutes,
                     Err("end_time", "Session cannot be longer than 8 hours"))
    ELSE <<>>

\* The ordering rule and the two duration rules, run when both times are valid.
SessionTimeRangeErrors(session) ==
    IF /\ Truthy(session.start_time) /\ Truthy(session.end_time)
       /\ validateTime(session.start_time) /\ validateTime(session.end_time)
    THEN LET startMinutes == MinutesOfDay(session.start_time)
             endMinutes == MinutesOfDay(session.end_time)
             durationMinutes == endMinutes - startMinutes
         IN  When(endMinutes <= startMinutes,
                  Err("end_time", "End time must be after start time"))
             \o When(durationMinutes < MinSessionMinutes,
                     Err("end_time", "Session must be at least 15 minutes long"))
             \o When(durationMinutes > MaxSessionMinutes,
                     Err("end_time", "Session cannot be longer than 8 hours"))
    ELSE <<>>

\* The date-range rule with the bounds themselves refused: <= and >=.
SessionDateRangeErrorsExclusive(session, eventStartDate, eventEndDate) ==
    IF /\ Truthy(session.date) /\ Truthy(eventStartDate) /\ Truthy(eventEndDate)
       /\ validateDate(session.date)
    THEN LET sessionDate == DateValue(session.date)
         IN  When(\/ DateParses(eventStartDate) /\ sessionDate <= DateValue(eventStartDate)
                  \/ DateParses(eventEndDate) /\ sessionDate >= DateValue(eventEndDate),
                  Err("date", "Session date must be within the event date range"))
    ELSE <<>>

\* The date-range rule, run when the date is valid and both bounds are supplied.
SessionDateRangeErrors(session, eventStartDate, eventEndDate) ==
    IF /\ Truthy(session.date) /\ Truthy(eventStartDate) /\ Truthy(eventEndDate)
       /\ validateDate(session.date)
    THEN LET sessionDate == DateValue(session.date)
         IN  \* A comparison with an Invalid Date (NaN) is false.
             When(\/ DateParses(eventStartDate) /\ sessionDate < DateValue(eventStartDate)
                  \/ DateParses(eventEndDate) /\ sessionDate > DateValue(eventEndDate),
                  Err("date", "Session date must be within the event date range"))
    ELSE <<>>

SessionOptionalErrors(session) ==
    When(Truthy(session.description) /\ Len(session.description) > 500,
         Err("description", "Description must be less than 500 characters"))
    \o When(Truthy(session.speaker) /\ Len(session.speaker) > 100,
            Err("speaker", "Speaker name must be less than 100 characters"))
    \o When(Truthy(session.venue) /\ Len(session.venue) > 100,
            Err("venue", "Venue name must be less than 100 characters"))

validateSession(session, eventStartDate, eventEndDate) ==
    Verdict(SessionTitleErrors(session)
            \o SessionRequiredErrors(session)
            \o SessionTimeRangeErrors(session)
            \o SessionDateRangeErrors(session, eventStartDate, eventEndDate)
            \o SessionOptionalErrors(session))

\* The name rules with the upper bound compared by >=.
AttendeeNameErrorsUnderFifty(value, f, label) ==
    IF Blank(value)
    THEN <<Err(f, label \o " is required")>>
    ELSE IF Len(value) < 2
    THEN <<Err(f, label \o " must be at least 2 characters long")>>
    ELSE IF Len(value) >= 50
    THEN <<Err(f, label \o " must be less than 50 characters")>>
    ELSE <<>>

\* The three rules of first_name and of last_name; the first that fails reports.
AttendeeNameErrors(value, f, label) ==
    IF Blank(value)
    THEN <<Err(f, label \o " is required")>>
    ELSE IF Len(value) < 2
    THEN <<Err(f, label \o " must be at least 2 characters long")>>
    ELSE IF Len(value) > 50
    THEN <<Err(f, label \o " must be less than 50 characters")>>
    ELSE <<>>

validateAttendee(attendee) ==
    Verdict((IF Blank(attendee.email)
             THEN <<Err("email", "Email is required")>>
             ELSE When(~validateEmail(attendee.email),
                       Err("email", "Please enter a valid email address")))
            \o AttendeeNameErrors(attendee.first_name, "first_name", "First name")
            \o AttendeeNameErrors(attendee.last_name, "last_name", "Last name")
            \o When(Truthy(attendee.company) /\ Len(attendee.company) > 100,
                    Err("company", "Company name must be less than 100 characters"))
            \o When(Truthy(attendee.job_title) /\ Len(attendee.job_title) > 100,
                    Err("job_title", "Job title must be less than 100 characters"))
            \o When(Truthy(attendee.phone) /\ ~validatePhone(attendee.phone),
                    Err("phone", "Please enter a valid phone number")))

\* The venue rules with the name made a required field.
validateVenueNameRequired(venue) ==
    Verdict((IF ~Truthy(venue.venue_name)
             THEN <<Err("venue_name", "Venue name is required")>>
             ELSE When(Len(venue.venue_name) > 200,
                       Err("venue_name", "Venue name must be less than 200 characters")))
            \o When(Truthy(venue.venue_address) /\ Len(venue.venue_address) > 500,
                    Err("venue_address", "Venue address must be less than 500 characters"))
            \o When(Truthy(venue.venue_maps_link) /\ ~validateUrl(venue.venue_maps_link),
                    Err("venue_maps_link", "Please enter a valid Google Maps URL")))

validateVenue(venue) ==
    Verdict(When(Truthy(venue.venue_name) /\ Len(venue.venue_name) > 200,
                 Err("venue_name", "Venue name must be less than 200 characters"))
            \o When(Truthy(venue.venue_address) /\ Len(venue.venue_address) > 500,
                    Err("venue_address", "Venue address must be less than 500 characters"))
            \o When(Truthy(venue.venue_maps_link) /\ ~validateUrl(venue.venue_maps_link),
                    Err("venue_maps_link", "Please enter a valid Google Maps URL")))

(***************************************************************************)
(* CSV batch validator                                                     *)
(***************************************************************************)

requiredHeaders == <<"email", "first_name", "last_name">>

\* headers = lines[0].toLowerCase().split(',').map(h => h.trim())
CsvHeaders(headerLine) ==
    LET tokens == Split(ToLowerCase(headerLine), ",")
    IN  [i \in DOMAIN tokens |-> Trim(tokens[i])]

\* headers.includes(h)
Includes(headers, h) == \E i \in DOMAIN headers : Str(headers[i]) = h

\* headers.indexOf(h): zero-based position of the first match, or -1.
IndexOf(headers, h) ==
    IF Includes(headers, h)
    THEN SetMin({i \in DOMAIN headers : Str(headers[i]) = h}) - 1
    ELSE -1

\* The missing-columns rule.
CsvHeaderErrors(headers) ==
    LET missingHeaders == SelectSeq(requiredHeaders, LAMBDA h : ~Includes(headers, h))
    IN  When(Len(missingHeaders) > 0,
             Err("csv", "Missing required columns: " \o Join(missingHeaders, ", ")))

\* values = line.split(',').map(v => v.trim().replace(/"/g, ''))
CsvValues(line) ==
    LET cells == Split(line, ",")
    IN  [i \in DOMAIN cells |-> Remove(Trim(cells[i]), {"\""})]

\* values[index] for index >= 0: undefined past the end of the row.
ValueAt(values, index) == IF index < Len(values) THEN values[index + 1] ELSE Undefined

\* The row checks with the header not counted as row 1: rowNumber = index + 1.
CsvRowErrorsFromOne(line, index, headers) ==
    LET values == CsvValues(line)
        rowNumber == index + 1
        emailIndex == IndexOf(headers, "email")
        firstNameIndex == IndexOf(headers, "first_name")
        lastNameIndex == IndexOf(headers, "last_name")
    IN  When(/\ emailIndex >= 0
             /\ Truthy(ValueAt(values, emailIndex))
             /\ ~validateEmail(ValueAt(values, emailIndex)),
             Err("csv", "Row " \o ToString(rowNumber) \o ": Invalid email format"))
        \o When(/\ firstNameIndex >= 0
                /\ \/ ~Truthy(ValueAt(values, firstNameIndex))
                   \/ Len(ValueAt(values, firstNameIndex)) < 2,
                Err("csv", "Row " \o ToString(rowNumber)
                           \o ": First name is required and must be at least 2 characters"))
        \o When(/\ lastNameIndex >= 0
                /\ \/ ~Truthy(ValueAt(values, lastNameIndex))
                   \/ Len(ValueAt(values, lastNameIndex)) < 2,
                Err("csv", "Row " \o ToString(rowNumber)
                           \o ": Last name is required and must be at least 2 characters"))

\* The body of dataLines.forEach for one line; index is zero-based.
CsvRowErrors(line, index, headers) ==
    LET values == CsvValues(line)
        rowNumber == index + 2
        emailIndex == IndexOf(headers, "email")
        firstNameIndex == IndexOf(headers, "first_name")
        lastNameIndex == IndexOf(headers, "last_name")
    IN  When(/\ emailIndex >= 0
             /\ Truthy(ValueAt(values, emailIndex))
             /\ ~validateEmail(ValueAt(values, emailIndex)),
             Err("csv", "Row " \o ToString(rowNumber) \o ": Invalid email format"))
        \o When(/\ firstNameIndex >= 0
                /\ \/ ~Truthy(ValueAt(values, firstNameIndex))
                   \/ Len(ValueAt(values, firstNameIndex)) < 2,
                Err("csv", "Row " \o ToString(rowNumber)
                           \o ": First name is required and must be at least 2 characters"))
        \o When(/\ lastNameIndex >= 0
                /\ \/ ~Truthy(ValueAt(values, lastNameIndex))
                   \/ Len(ValueAt(values, lastNameIndex)) < 2,
                Err("csv", "Row " \o ToString(rowNumber)
                           \o ": Last name is required and must be at least 2 characters"))

\* dataLines.forEach(...): the row errors of the lines from position index on.
RECURSIVE CsvDataErrors(_, _, _)
CsvDataErrors(dataLines, index, headers) ==
    IF index >= Len(dataLines) THEN <<>>
    ELSE CsvRowErrors(dataLines[index + 1], index, headers)
         \o CsvDataErrors(dataLines, index + 1, headers)

\* The accumulation with the row scan skipped when a required column is missing.
CsvAccumulatedShortCircuit(lines) ==
    LET headers == CsvHeaders(lines[1])
    IN  IF Len(CsvHeaderErrors(headers)) > 0 THEN CsvHeaderErrors(headers)
        ELSE CsvDataErrors(Tail(lines), 0, headers)

\* The errors accumulated by the header rule and the row scan, before the cap.
CsvAccumulated(lines) ==
    LET headers == CsvHeaders(lines[1])
    IN  CsvHeaderErrors(headers) \o CsvDataErrors(Tail(lines), 0, headers)

\* The cap with the list cut one place too late: splice(11).
CsvCapCutLate(errors) ==
    IF Len(errors) > MaxCsvErrors
    THEN SubSeq(errors, 1, MaxCsvErrors + 1)
         \o <<Err("csv", "And more validation errors... Please fix the above issues first.")>>
    ELSE errors

\* if (errors.length > 10) { errors.splice(10); errors.push(...) }
CsvCap(errors) ==
    IF Len(errors) > MaxCsvErrors
    THEN SubSeq(errors, 1, MaxCsvErrors)
         \o <<Err("csv", "And more validation errors... Please fix the above issues first.")>>
    ELSE errors

\* The empty-text return with the push of its error left out.
CsvEmptyResultNoError == [isValid |-> FALSE, errors |-> <<>>]

\* The early return taken when the trimmed text is empty.
CsvEmptyResult ==
    [isValid |-> FALSE, errors |-> <<Err("csv", "CSV data is required")>>]

\* The early return taken when there is no data row.
CsvNoRowsResult ==
    [isValid |-> FALSE,
     errors |-> <<Err("csv", "CSV must contain at least a header row and one data row")>>]

\* The validator with the emptiness test made on the untrimmed text.
validateCsvDataUntrimmedTest(csvData) ==
    IF Len(csvData) = 0 THEN CsvEmptyResult
    ELSE LET lines == Split(Trim(csvData), "\n")
         IN  IF Len(lines) < 2 THEN CsvNoRowsResult
             ELSE Verdict(CsvCap(CsvAccumulated(lines)))

validateCsvData(csvData) ==
    IF Len(Trim(csvData)) = 0 THEN CsvEmptyResult
    ELSE LET lines == Split(Trim(csvData), "\n")
         IN  IF Len(lines) < 2 THEN CsvNoRowsResult
             ELSE Verdict(CsvCap(CsvAccumulated(lines)))

(***************************************************************************)
(* Inputs.  The validators are pure functions; the specification draws a   *)
(* call from the bounded sets below and applies the validator to it.       *)
(***************************************************************************)

\* Longest CSV batch, in data rows, over the standard header.
MaxRows == 4

\* Longest CSV batch, in data rows, over every header variant.
MaxMixedRows == 2

\* The sequences over S of length 1..n.
RECURSIVE SeqsUpTo(_, _)
SeqsUpTo(S, n) ==
    IF n = 0 THEN {}
    ELSE LET shorter == SeqsUpTo(S, n - 1)
         IN  {<<x>> : x \in S} \cup shorter \cup {Append(q, x) : q \in shorter, x \in S}

\* The text made of the given lines, separated by newlines.
RECURSIVE JoinLines(_)
JoinLines(ls) ==
    IF Len(ls) = 0 THEN <<>>
    ELSE IF Len(ls) = 1 THEN ls[1]
    ELSE ls[1] \o <<"\n">> \o JoinLines(Tail(ls))

\* 2030-06-15 at 02:00 and at 10:30 UTC, in minutes since the epoch.
NowChoices ==
    {DaysFromCivil(2030, 6, 15) * MinutesPerDay + 120,
     DaysFromCivil(2030, 6, 15) * MinutesPerDay + 630}

\* getTimezoneOffset(): UTC+2, UTC and UTC-5.
TzChoices == {-120, 0, 300}

\* The clock of the calls that do not read it: 2030-06-15 10:30 UTC, in UTC.
DefaultNow == DaysFromCivil(2030, 6, 15) * MinutesPerDay + 630

\* undefined, '', 'abc', '2030-06-14', '2030-06-15', '2030-06-16', '2099-01-01', '2030-06-15T12:00'
EventStartDates ==
    {Undefined,
     <<>>,
     <<"a", "b", "c">>,
     <<"2", "0", "3", "0", "-", "0", "6", "-", "1", "4">>,
     <<"2", "0", "3", "0", "-", "0", "6", "-", "1", "5">>,
     <<"2", "0", "3", "0", "-", "0", "6", "-", "1", "6">>,
     <<"2", "0", "9", "9", "-", "0", "1", "-", "0", "1">>,
     <<"2", "0", "3", "0", "-", "0", "6", "-", "1", "5", "T", "1", "2", ":", "0", "0">>}

\* undefined, '2030-13-01', '2030-06-14', '2030-06-15', '2030-06-16', '2031-06-15', '2031-06-16', '2031-06-15T12:00', '2098-12-31', '2099-01-01', '2100-01-01', '2100-01-02', '2100-02-05'
EventEndDates ==
    {Undefined,
     <<"2", "0", "3", "0", "-", "1", "3", "-", "0", "1">>,
     <<"2", "0", "3", "0", "-", "0", "6", "-", "1", "4">>,
     <<"2", "0", "3", "0", "-", "0", "6", "-", "1", "5">>,
     <<"2", "0", "3", "0", "-", "0", "6", "-", "1", "6">>,
     <<"2", "0", "3", "1", "-", "0", "6", "-", "1", "5">>,
     <<"2", "0", "3", "1", "-", "0", "6", "-", "1", "6">>,
     <<"2", "0", "3", "1", "-", "0", "6", "-", "1", "5", "T", "1", "2", ":", "0", "0">>,
     <<"2", "0", "9", "8", "-", "1", "2", "-", "3", "1">>,
     <<"2", "0", "9", "9", "-", "0", "1", "-", "0", "1">>,
     <<"2", "1", "0", "0", "-", "0", "1", "-", "0", "1">>,
     <<"2", "1", "0", "0", "-", "0", "1", "-", "0", "2">>,
     <<"2", "1", "0", "0", "-", "0", "2", "-", "0", "5">>}

\* undefined, '   ', 'Go', 'ValidConf', 100 letters, 101 letters
EventNames ==
    {Undefined,
     <<" ", " ", " ">>,
     <<"G", "o">>,
     <<"V", "a", "l", "i", "d", "C", "o", "n", "f">>,
     Repeat("n", 100),
     Repeat("n", 101)}

NoEventOptions ==
    [description |-> Undefined, organizer_email |-> Undefined, organizer_phone |-> Undefined,
     organization_website |-> Undefined, primary_color |-> Undefined,
     accent_color |-> Undefined, organization_name |-> Undefined,
     organizer_name |-> Undefined]

EventOptions ==
    {NoEventOptions,
     [description |-> <<"A", " ", "c", "o", "n", "f", "e", "r", "e", "n", "c", "e">>, organizer_email |-> <<"a", "@", "b", ".", "c", "o">>,
      organizer_phone |-> <<"+", "1", " ", "(", "5", "5", "5", ")", " ", "1", "2", "3", "-", "4", "5", "6", "7">>,
      organization_website |-> <<"h", "t", "t", "p", "s", ":", "/", "/", "e", "x", "a", "m", "p", "l", "e", ".", "o", "r", "g">>,
      primary_color |-> <<"#", "F", "F", "F">>, accent_color |-> <<"#", "1", "A", "2", "B", "3", "C">>,
      organization_name |-> <<"O", "r", "g">>, organizer_name |-> <<"A", "n", "n">>],
     [description |-> Repeat("d", 501), organizer_email |-> <<"a", "@", "b">>,
      organizer_phone |-> <<"0", "1", "2", "3">>,
      organization_website |-> <<"e", "x", "a", "m", "p", "l", "e", ".", "o", "r", "g">>,
      primary_color |-> <<"1", "2", "3", "4", "5", "6">>, accent_color |-> <<"#", "1", "2">>,
      organization_name |-> Repeat("o", 101), organizer_name |-> Repeat("p", 101)],
     [description |-> <<>>, organizer_email |-> <<"a", " ", "b", "@", "c", ".", "c", "o", "m">>,
      organizer_phone |-> <<>>,
      organization_website |-> <<"m", "a", "i", "l", "t", "o", ":", "a", "@", "b", ".", "c", "o">>,
      primary_color |-> <<"#", "1", "a", "2", "b", "3">>, accent_color |-> <<"#", "g", "g", "g">>,
      organization_name |-> Repeat("o", 100), organizer_name |-> <<>>]}

EventRecord(name, start, end, opt) ==
    [name |-> name, start_date |-> start, end_date |-> end,
     description |-> opt.description, organizer_email |-> opt.organizer_email,
     organizer_phone |-> opt.organizer_phone,
     organization_website |-> opt.organization_website,
     primary_color |-> opt.primary_color, accent_color |-> opt.accent_color,
     organization_name |-> opt.organization_name, organizer_name |-> opt.organizer_name]

\* Every pair of dates under every clock, every name with every set of
\* optional fields, and records that break rules of several groups at once
\* (start 'abc' or '2030-06-14', end '2030-06-13' or '2031-06-16').
EventInputs ==
    {EventRecord(n, s, e, NoEventOptions) :
         n \in {<<"G", "o">>, <<"V", "a", "l", "i", "d", "C", "o", "n", "f">>}, s \in EventStartDates, e \in EventEndDates}
    \cup {EventRecord(n, <<"2", "0", "9", "9", "-", "0", "1", "-", "0", "1">>, <<"2", "0", "9", "9", "-", "0", "1", "-", "0", "2">>, opt) :
              n \in EventNames, opt \in EventOptions}
    \cup {EventRecord(n, s, e, opt) :
              n \in {Undefined, <<"V", "a", "l", "i", "d", "C", "o", "n", "f">>},
              s \in {Undefined, <<"a", "b", "c">>, <<"2", "0", "3", "0", "-", "0", "6", "-", "1", "4">>},
              e \in {Undefined, <<"2", "0", "3", "0", "-", "0", "6", "-", "1", "3">>, <<"2", "0", "3", "1", "-", "0", "6", "-", "1", "6">>},
              opt \in EventOptions}

\* undefined, '9:00', '09:00', '00:00', '15:30', '24:00', '9:5'
SessionStartTimes ==
    {Undefined,
     <<"9", ":", "0", "0">>,
     <<"0", "9", ":", "0", "0">>,
     <<"0", "0", ":", "0", "0">>,
     <<"1", "5", ":", "3", "0">>,
     <<"2", "4", ":", "0", "0">>,
     <<"9", ":", "5">>}

\* undefined, '', '08:00', '8:59', '09:00', '09:10', '09:14', '09:15', '17:00', '17:01', '23:59', '00:00', '25:00', '9:60'
SessionEndTimes ==
    {Undefined,
     <<>>,
     <<"0", "8", ":", "0", "0">>,
     <<"8", ":", "5", "9">>,
     <<"0", "9", ":", "0", "0">>,
     <<"0", "9", ":", "1", "0">>,
     <<"0", "9", ":", "1", "4">>,
     <<"0", "9", ":", "1", "5">>,
     <<"1", "7", ":", "0", "0">>,
     <<"1", "7", ":", "0", "1">>,
     <<"2", "3", ":", "5", "9">>,
     <<"0", "0", ":", "0", "0">>,
     <<"2", "5", ":", "0", "0">>,
     <<"9", ":", "6", "0">>}

\* undefined, ' ', 'Go', 'Keynote', 200 letters, 201 letters
SessionTitles ==
    {Undefined,
     <<" ">>,
     <<"G", "o">>,
     <<"K", "e", "y", "n", "o", "t", "e">>,
     Repeat("t", 200),
     Repeat("t", 201)}

\* undefined, 'soon', '2030-06-14', '2030-06-15', '2030-06-17', '2030-06-18'
SessionDates ==
    {Undefined,
     <<"s", "o", "o", "n">>,
     <<"2", "0", "3", "0", "-", "0", "6", "-", "1", "4">>,
     <<"2", "0", "3", "0", "-", "0", "6", "-", "1", "5">>,
     <<"2", "0", "3", "0", "-", "0", "6", "-", "1", "7">>,
     <<"2", "0", "3", "0", "-", "0", "6", "-", "1", "8">>}

\* eventStartDate and eventEndDate as the caller passes them.
EventRanges ==
    {<<Undefined, Undefined>>,
     <<<<"2", "0", "3", "0", "-", "0", "6", "-", "1", "5">>, <<"2", "0", "3", "0", "-", "0", "6", "-", "1", "7">>>>,
     <<<<"2", "0", "3", "0", "-", "0", "6", "-", "1", "5">>, Undefined>>,
     <<Undefined, <<"2", "0", "3", "0", "-", "0", "6", "-", "1", "7">>>>,
     <<<<>>, <<"2", "0", "3", "0", "-", "0", "6", "-", "1", "7">>>>}

NoSessionOptions == [description |-> Undefined, speaker |-> Undefined, venue |-> Undefined]

SessionOptions ==
    {NoSessionOptions,
     [description |-> <<"I", "n", "t", "r", "o">>, speaker |-> <<"A", "n", "n">>, venue |-> <<"H", "a", "l", "l">>],
     [description |-> Repeat("d", 501), speaker |-> Repeat("s", 101),
      venue |-> Repeat("v", 101)]}

SessionRecord(title, start, end, date, opt) ==
    [title |-> title, start_time |-> start, end_time |-> end, date |-> date,
     description |-> opt.description, speaker |-> opt.speaker, venue |-> opt.venue]

SessionCall(session, range) ==
    [session |-> session, eventStartDate |-> range[1], eventEndDate |-> range[2]]

\* Every pair of times, every date against every range, and every title with
\* every set of optional fields.
SessionInputs ==
    {SessionCall(SessionRecord(t, s, e, <<"2", "0", "3", "0", "-", "0", "6", "-", "1", "5">>, NoSessionOptions),
                 <<Undefined, Undefined>>) :
         t \in {Undefined, <<"K", "e", "y", "n", "o", "t", "e">>}, s \in SessionStartTimes, e \in SessionEndTimes}
    \cup {SessionCall(SessionRecord(<<"K", "e", "y", "n", "o", "t", "e">>, <<"0", "9", ":", "0", "0">>, <<"1", "0", ":", "0", "0">>, d, NoSessionOptions), r) :
              d \in SessionDates, r \in EventRanges}
    \cup {SessionCall(SessionRecord(t, <<"0", "9", ":", "0", "0">>, <<"1", "0", ":", "0", "0">>, <<"2", "0", "3", "0", "-", "0", "6", "-", "1", "5">>, opt),
                      <<Undefined, Undefined>>) :
              t \in SessionTitles, opt \in SessionOptions}

\* undefined, '', 'a@b.co', 'a@b', 'a b@c.com', 'a@@b.co'
AttendeeEmails ==
    {Undefined,
     <<>>,
     <<"a", "@", "b", ".", "c", "o">>,
     <<"a", "@", "b">>,
     <<"a", " ", "b", "@", "c", ".", "c", "o", "m">>,
     <<"a", "@", "@", "b", ".", "c", "o">>}

\* undefined, '  ', 'A', ' A', 'Al', 50 letters, 51 letters
AttendeeFirstNames ==
    {Undefined,
     <<" ", " ">>,
     <<"A">>,
     <<" ", "A">>,
     <<"A", "l">>,
     Repeat("f", 50),
     Repeat("f", 51)}

\* undefined, 'B', 'Bo', 51 letters
AttendeeLastNames ==
    {Undefined,
     <<"B">>,
     <<"B", "o">>,
     Repeat("l", 51)}

\* undefined, '+1 (555) 123-4567', '0123', '+12345678901234567', '1234567890123456'
AttendeePhones ==
    {Undefined,
     <<"+", "1", " ", "(", "5", "5", "5", ")", " ", "1", "2", "3", "-", "4", "5", "6", "7">>,
     <<"0", "1", "2", "3">>,
     <<"+", "1", "2", "3", "4", "5", "6", "7", "8", "9", "0", "1", "2", "3", "4", "5", "6", "7">>,
     <<"1", "2", "3", "4", "5", "6", "7", "8", "9", "0", "1", "2", "3", "4", "5", "6">>}

AttendeeInputs ==
    {[email |-> e, first_name |-> f, last_name |-> l, phone |-> p,
      company |-> c, job_title |-> c] :
         e \in AttendeeEmails, f \in AttendeeFirstNames, l \in AttendeeLastNames,
         p \in AttendeePhones, c \in {Undefined, Repeat("c", 100), Repeat("c", 101)}}

\* undefined, '', 'https://maps.google.com/x', 'maps.google.com', 'not a url', 'http://', 'mailto:a@b.co'
VenueLinks ==
    {Undefined,
     <<>>,
     <<"h", "t", "t", "p", "s", ":", "/", "/", "m", "a", "p", "s", ".", "g", "o", "o", "g", "l", "e", ".", "c", "o", "m", "/", "x">>,
     <<"m", "a", "p", "s", ".", "g", "o", "o", "g", "l", "e", ".", "c", "o", "m">>,
     <<"n", "o", "t", " ", "a", " ", "u", "r", "l">>,
     <<"h", "t", "t", "p", ":", "/", "/">>,
     <<"m", "a", "i", "l", "t", "o", ":", "a", "@", "b", ".", "c", "o">>}

\* The partial event records updateVenueDetails validates: the three venue
\* fields, and organizer_email (undefined or 'a@b') for the fields the venue
\* validator has no rule for.
VenueInputs ==
    {[venue_name |-> n, venue_address |-> a, venue_maps_link |-> l,
      organizer_email |-> o] :
         n \in {Undefined, <<>>, Repeat("v", 200), Repeat("v", 201)},
         a \in {Undefined, <<>>, Repeat("a", 500), Repeat("a", 501)},
         l \in VenueLinks,
         o \in {Undefined, <<"a", "@", "b">>}}

\* The header every batch of the long scan uses.
StandardHeader == <<"e", "m", "a", "i", "l", ",", "f", "i", "r", "s", "t", "_", "n", "a", "m", "e", ",", "l", "a", "s", "t", "_", "n", "a", "m", "e">>

\* Header lines: 'email,first_name,last_name', 'Email, First_Name ,LAST_NAME\r', 'first_name,last_name', 'email', 'name,phone', 'last_name,email,first_name,company'
CsvHeaderLines ==
    {<<"e", "m", "a", "i", "l", ",", "f", "i", "r", "s", "t", "_", "n", "a", "m", "e", ",", "l", "a", "s", "t", "_", "n", "a", "m", "e">>,
     <<"E", "m", "a", "i", "l", ",", " ", "F", "i", "r", "s", "t", "_", "N", "a", "m", "e", " ", ",", "L", "A", "S", "T", "_", "N", "A", "M", "E", "\r">>,
     <<"f", "i", "r", "s", "t", "_", "n", "a", "m", "e", ",", "l", "a", "s", "t", "_", "n", "a", "m", "e">>,
     <<"e", "m", "a", "i", "l">>,
     <<"n", "a", "m", "e", ",", "p", "h", "o", "n", "e">>,
     <<"l", "a", "s", "t", "_", "n", "a", "m", "e", ",", "e", "m", "a", "i", "l", ",", "f", "i", "r", "s", "t", "_", "n", "a", "m", "e", ",", "c", "o", "m", "p", "a", "n", "y">>}

\* Data rows with 0, 1, 2 and 3 violations under the standard header: 'a@b.co,Al,Bo', 'a@b.co,A,Bo', 'x,Al,B', 'bad-email,A,B'
CountedRows ==
    {<<"a", "@", "b", ".", "c", "o", ",", "A", "l", ",", "B", "o">>,
     <<"a", "@", "b", ".", "c", "o", ",", "A", ",", "B", "o">>,
     <<"x", ",", "A", "l", ",", "B">>,
     <<"b", "a", "d", "-", "e", "m", "a", "i", "l", ",", "A", ",", "B">>}

\* Data rows of every shape: 'a@b.co,Al,Bo', ',Al,Bo', 'a@b.co', '"a@b.co", "Al" ,Bo\r', '', 'Bo,a@b.co,Al,Acme', 'B,,A'
MixedRows ==
    {<<"a", "@", "b", ".", "c", "o", ",", "A", "l", ",", "B", "o">>,
     <<",", "A", "l", ",", "B", "o">>,
     <<"a", "@", "b", ".", "c", "o">>,
     <<"\"", "a", "@", "b", ".", "c", "o", "\"", ",", " ", "\"", "A", "l", "\"", " ", ",", "B", "o", "\r">>,
     <<>>,
     <<"B", "o", ",", "a", "@", "b", ".", "c", "o", ",", "A", "l", ",", "A", "c", "m", "e">>,
     <<"B", ",", ",", "A">>}

\* Texts with no data row, and a batch without a header: '', '  \n ', 'email,first_name,last_name', 'email,first_name,last_name\n', '\n\n', 'a@b.co,Al,Bo\n\nemail,first_name,last_name'
RawCsvTexts ==
    {<<>>,
     <<" ", " ", "\n", " ">>,
     <<"e", "m", "a", "i", "l", ",", "f", "i", "r", "s", "t", "_", "n", "a", "m", "e", ",", "l", "a", "s", "t", "_", "n", "a", "m", "e">>,
     <<"e", "m", "a", "i", "l", ",", "f", "i", "r", "s", "t", "_", "n", "a", "m", "e", ",", "l", "a", "s", "t", "_", "n", "a", "m", "e", "\n">>,
     <<"\n", "\n">>,
     <<"a", "@", "b", ".", "c", "o", ",", "A", "l", ",", "B", "o", "\n", "\n", "e", "m", "a", "i", "l", ",", "f", "i", "r", "s", "t", "_", "n", "a", "m", "e", ",", "l", "a", "s", "t", "_", "n", "a", "m", "e">>}

CsvInputs ==
    {[csvData |-> JoinLines(<<StandardHeader>> \o rows)] :
         rows \in SeqsUpTo(CountedRows, MaxRows)}
    \cup {[csvData |-> JoinLines(<<h>> \o rows)] :
              h \in CsvHeaderLines, rows \in SeqsUpTo(MixedRows, MaxMixedRows)}
    \cup {[csvData |-> t] : t \in RawCsvTexts}

(***************************************************************************)
(* The calls                                                               *)
(***************************************************************************)

NoResult == "none"

\* No screen is mounted while a validator is called on its own.
NoScreen == [screen |-> "none"]

\* useState<Record<string, string>>({}): the field-error map with no entry.
NoErrors == [f \in {} |-> ""]

\* The data of a user action that validates or writes nothing.
NoData == [id |-> "none"]

\* The verdict of a user action that runs no validator.
NoVerdict == [isValid |-> FALSE, errors |-> <<>>]

NoAction ==
    [handler |-> "none", validator |-> "none", validated |-> NoData,
     verdict |-> NoVerdict, call |-> "none", written |-> NoData]

ScreensIdle ==
    /\ ui = NoScreen
    /\ pending = {}
    /\ lastAction = NoAction
    /\ seq = 0
    /\ store = [attendees |-> <<>>, sessions |-> <<>>]

Init ==
    /\ pc = "ready"
    /\ result = NoResult
    /\ ScreensIdle
    /\ \/ /\ fn = "validateEventSetup"
          /\ args \in EventInputs
          /\ now \in NowChoices
          /\ tz \in TzChoices
       \/ /\ fn = "validateSession"
          /\ args \in SessionInputs
          /\ now = DefaultNow
          /\ tz = 0
       \/ /\ fn = "validateAttendee"
          /\ args \in AttendeeInputs
          /\ now = DefaultNow
          /\ tz = 0
       \/ /\ fn = "validateCsvData"
          /\ args \in CsvInputs
          /\ now = DefaultNow
          /\ tz = 0
       \/ /\ fn = "validateVenue"
          /\ args \in VenueInputs
          /\ now = DefaultNow
          /\ tz = 0

CallValidateEventSetup ==
    /\ pc = "ready" /\ fn = "validateEventSetup"
    /\ result' = validateEventSetup(args)
    /\ pc' = "done"
    /\ UNCHANGED <<fn, args, now, tz>>
    /\ UNCHANGED screenVars

CallValidateSession ==
    /\ pc = "ready" /\ fn = "validateSession"
    /\ result' = validateSession(args.session, args.eventStartDate, args.eventEndDate)
    /\ pc' = "done"
    /\ UNCHANGED <<fn, args, now, tz>>
    /\ UNCHANGED screenVars

CallValidateAttendee ==
    /\ pc = "ready" /\ fn = "validateAttendee"
    /\ result' = validateAttendee(args)
    /\ pc' = "done"
    /\ UNCHANGED <<fn, args, now, tz>>
    /\ UNCHANGED screenVars

CallValidateCsvData ==
    /\ pc = "ready" /\ fn = "validateCsvData"
    /\ result' = validateCsvData(args.csvData)
    /\ pc' = "done"
    /\ UNCHANGED <<fn, args, now, tz>>
    /\ UNCHANGED screenVars

CallValidateVenue ==
    /\ pc = "ready" /\ fn = "validateVenue"
    /\ result' = validateVenue(args)
    /\ pc' = "done"
    /\ UNCHANGED <<fn, args, now, tz>>
    /\ UNCHANGED screenVars

Next ==
    \/ CallValidateEventSetup
    \/ CallValidateSession
    \/ CallValidateAttendee
    \/ CallValidateCsvData
    \/ CallValidateVenue

Spec == Init /\ [][Next]_vars

(***************************************************************************)
(* Properties                                                              *)
(***************************************************************************)

Returned(f) == pc = "done" /\ fn = f

\* The returned list holds an error with this field and message.
HasError(f, m) == \E i \in DOMAIN result.errors : result.errors[i] = Err(f, m)

\* The returned list holds an error for this field.
HasErrorFor(f) == \E i \in DOMAIN result.errors : result.errors[i].field = f

\* C1: whatever validator ran and whatever its input, the early returns of
\* validateCsvData included, isValid is true exactly when errors is empty.
C1_IsValidIffNoErrors ==
    pc = "done" => (result.isValid <=> Len(result.errors) = 0)

\* The empty-text early return of validateCsvData was taken.
C1_Witness ==
    /\ Returned("validateCsvData")
    /\ Len(args.csvData) > 0
    /\ AllIn(args.csvData, WhiteSpace)
    /\ ~result.isValid
    /\ Len(result.errors) = 1

\* Both times of the validated session are syntactically valid.
SessionTimesValid ==
    /\ Truthy(args.session.start_time) /\ validateTime(args.session.start_time)
    /\ Truthy(args.session.end_time) /\ validateTime(args.session.end_time)

\* End minus start of the validated session, in minutes.
SessionDuration ==
    MinutesOfDay(args.session.end_time) - MinutesOfDay(args.session.start_time)

\* C2: when both times are valid and end <= start, validateSession reports
\* 'End time must be after start time' and neither duration error.
C2_OrderingSuppressesDuration ==
    (Returned("validateSession") /\ SessionTimesValid /\ SessionDuration <= 0)
        => /\ HasError("end_time", "End time must be after start time")
           /\ ~HasError("end_time", "Session must be at least 15 minutes long")
           /\ ~HasError("end_time", "Session cannot be longer than 8 hours")

\* C3: for valid times with end > start, the 'at least 15 minutes' error is
\* reported exactly when the duration is under 15, the 'longer than 8 hours'
\* error exactly when it is over 480, and no end_time error in between.
C3_DurationBounds ==
    (Returned("validateSession") /\ SessionTimesValid /\ SessionDuration > 0)
        => /\ HasError("end_time", "Session must be at least 15 minutes long")
                  <=> SessionDuration < 15
           /\ HasError("end_time", "Session cannot be longer than 8 hours")
                  <=> SessionDuration > 480
           /\ (SessionDuration >= 15 /\ SessionDuration <= 480) => ~HasErrorFor("end_time")

\* A session of exactly 15 minutes was validated and accepted.
C3_Witness ==
    /\ Returned("validateSession")
    /\ SessionTimesValid
    /\ SessionDuration = 15
    /\ ~HasErrorFor("end_time")

\* The validated CSV text has a header line and at least one data line, so
\* the header rule and the row scan ran.
CsvScanned ==
    /\ Returned("validateCsvData")
    /\ \E i \in 1..Len(Trim(args.csvData)) : Trim(args.csvData)[i] = "\n"

\* The scanned batch: its lines and its header names.
Batch ==
    LET lines == Split(Trim(args.csvData), "\n")
    IN  [lines |-> lines, headers |-> CsvHeaders(lines[1]), rows |-> Len(lines) - 1]

RequiredColumns == {"email", "first_name", "last_name"}

\* The header of a required column is present.
ColumnFound(b, c) == Includes(b.headers, c)

\* The cell of the k-th data line under column c (undefined when the line is
\* too short).
Cell(b, k, c) == ValueAt(CsvValues(b.lines[k + 1]), IndexOf(b.headers, c))

\* The message of a row error for row n and column c.
RowMessage(n, c) ==
    "Row " \o ToString(n) \o
        (CASE c = "email" -> ": Invalid email format"
           [] c = "first_name" -> ": First name is required and must be at least 2 characters"
           [] c = "last_name" -> ": Last name is required and must be at least 2 characters")

MoreErrors == Err("csv", "And more validation errors... Please fix the above issues first.")

\* The returned list was cut by the cap.
Truncated == \E i \in DOMAIN result.errors : result.errors[i] = MoreErrors

\* C4: validateCsvData returns at most 11 errors: more than 10 accumulated
\* errors come back as the first 10, in order, followed by the 'And more'
\* error; 10 or fewer come back unchanged, without that error.
C4_ErrorCap ==
    Returned("validateCsvData")
        => /\ Len(result.errors) <= 11
           /\ CsvScanned =>
                  LET accumulated == CsvAccumulated(Batch.lines)
                  IN  IF Len(accumulated) > 10
                      THEN result.errors = SubSeq(accumulated, 1, 10) \o <<MoreErrors>>
                      ELSE result.errors = accumulated /\ ~Truncated

\* More than 10 errors were accumulated and 11 were returned.
C4_Witness ==
    /\ CsvScanned
    /\ Len(CsvAccumulated(Batch.lines)) > 10
    /\ Len(result.errors) = 11
    /\ result.errors[11] = MoreErrors

\* C5: for every data row and every required column that was found, presence
\* and shape are both checked: an empty, absent or malformed email cell
\* yields an error for that row, and so does a first or last name that is
\* empty or shorter than 2 characters.  (Stated for lists the cap did not cut.)
C5_RowPresenceAndShape ==
    (CsvScanned /\ ~Truncated)
        => LET b == Batch
           IN  \A k \in 1..b.rows :
                   /\ (/\ ColumnFound(b, "email")
                       /\ \/ ~Truthy(Cell(b, k, "email"))
                          \/ ~validateEmail(Cell(b, k, "email")))
                          => \E c \in RequiredColumns : HasError("csv", RowMessage(k + 1, c))
                   /\ \A c \in {"first_name", "last_name"} :
                          (/\ ColumnFound(b, c)
                           /\ \/ ~Truthy(Cell(b, k, c))
                              \/ Len(Cell(b, k, c)) < 2)
                              => HasError("csv", RowMessage(k + 1, c))

\* The check the source makes of the cell of row k under column c.
RowViolates(b, k, c) ==
    IF c = "email"
    THEN Truthy(Cell(b, k, c)) /\ ~validateEmail(Cell(b, k, c))
    ELSE ~Truthy(Cell(b, k, c)) \/ Len(Cell(b, k, c)) < 2

\* The required headers the header line lacks, in the order of the source.
MissingColumns(b) ==
    SelectSeq(<<"email", "first_name", "last_name">>, LAMBDA c : ~ColumnFound(b, c))

\* C6: when required headers are missing, exactly one error lists them all
\* (so the result is invalid), the data rows are still scanned with the
\* checks of every column that was found, and no row error is reported for
\* a missing column.
C6_MissingHeadersDoNotStopScan ==
    CsvScanned
        => LET b == Batch
               missing == MissingColumns(b)
           IN  Len(missing) > 0
                   => /\ ~result.isValid
                      /\ result.errors[1] =
                             Err("csv", "Missing required columns: " \o Join(missing, ", "))
                      /\ \A i \in DOMAIN result.errors :
                             i > 1 =>
                                 \/ result.errors[i] = MoreErrors
                                 \/ \E k \in 1..b.rows : \E c \in RequiredColumns :
                                        /\ result.errors[i] = Err("csv", RowMessage(k + 1, c))
                                        /\ ColumnFound(b, c)
                      /\ \A k \in 1..b.rows : \A c \in RequiredColumns :
                             (ColumnFound(b, c) /\ RowViolates(b, k, c))
                                 => (Truncated \/ HasError("csv", RowMessage(k + 1, c)))

\* A batch without the email column was scanned and a row error reported.
C6_Witness ==
    /\ CsvScanned
    /\ ~ColumnFound(Batch, "email")
    /\ Len(result.errors) >= 2
    /\ \E k \in 1..Batch.rows : HasError("csv", RowMessage(k + 1, "last_name"))

\* C7: a text that is empty after trimming returns at once with the single
\* error 'CSV data is required'; a text with fewer than 2 lines after
\* trimming returns at once with the single error 'CSV must contain at
\* least a header row and one data row'; both results are invalid.
C7_EarlyReturns ==
    Returned("validateCsvData")
        => /\ AllIn(args.csvData, WhiteSpace)
                  => result = [isValid |-> FALSE,
                               errors |-> <<Err("csv", "CSV data is required")>>]
           /\ (~AllIn(args.csvData, WhiteSpace) /\ ~CsvScanned)
                  => result = [isValid |-> FALSE,
                               errors |-> <<Err("csv",
                                   "CSV must contain at least a header row and one data row")>>]

\* A header line followed only by a newline was rejected for having no rows.
C7_Witness ==
    /\ Returned("validateCsvData")
    /\ \E i \in 1..Len(args.csvData) : args.csvData[i] = "\n"
    /\ ~AllIn(args.csvData, WhiteSpace)
    /\ ~CsvScanned
    /\ Len(result.errors) = 1

\* The rows, among the first n data rows, that the error names.
RowsNamed(e, n) ==
    {k \in 1..n : \E c \in RequiredColumns : e = Err("csv", RowMessage(k + 1, c))}

BadEmailShortNamesBatch ==
    <<"e", "m", "a", "i", "l", ",", "f", "i", "r", "s", "t", "_", "n", "a", "m", "e", ",",
      "l", "a", "s", "t", "_", "n", "a", "m", "e", "\n",
      "b", "a", "d", "-", "e", "m", "a", "i", "l", ",", "A", ",", "B">>

\* C8: every error of validateCsvData has field 'csv'; a row error names
\* row k + 1 for a violation in the k-th data line (the header is row 1);
\* row errors come in row order; and header email,first_name,last_name with
\* the row bad-email,A,B is invalid with a row-2 email error and a row-2
\* first-name error.
C8_RowNumbering ==
    /\ Returned("validateCsvData")
           => \A i \in DOMAIN result.errors : result.errors[i].field = "csv"
    /\ CsvScanned
           => LET b == Batch
                  named == [i \in DOMAIN result.errors |-> RowsNamed(result.errors[i], b.rows)]
              IN  /\ \A i \in DOMAIN result.errors :
                         \/ i = 1 /\ Len(MissingColumns(b)) > 0
                         \/ result.errors[i] = MoreErrors
                         \/ \E k \in named[i] : \E c \in RequiredColumns :
                                /\ result.errors[i] = Err("csv", RowMessage(k + 1, c))
                                /\ ColumnFound(b, c)
                                /\ RowViolates(b, k, c)
                  /\ \A i, j \in DOMAIN result.errors :
                         i < j => \A k \in named[i] : \A l \in named[j] : k <= l
    /\ (Returned("validateCsvData") /\ args.csvData = BadEmailShortNamesBatch)
           => /\ ~result.isValid
              /\ HasError("csv", "Row 2: Invalid email format")
              /\ HasError("csv", "Row 2: First name is required and must be at least 2 characters")

\* The batch bad-email,A,B was validated and its row-2 errors returned.
C8_Witness ==
    /\ Returned("validateCsvData")
    /\ args.csvData = BadEmailShortNamesBatch
    /\ HasError("csv", "Row 2: Invalid email format")
    /\ HasError("csv", "Row 2: First name is required and must be at least 2 characters")

\* Both dates of the validated event parse.
EventDatesParse ==
    /\ Truthy(args.start_date) /\ DateParses(args.start_date)
    /\ Truthy(args.end_date) /\ DateParses(args.end_date)

\* End minus start of the validated event, in minutes.
EventSpan == DateValue(args.end_date) - DateValue(args.start_date)

\* C9: when both dates parse and the end is strictly before the start,
\* validateEventSetup reports 'End date must be after start date' and not
\* the 365-day error; an end equal to the start gets neither.
C9_EndBeforeStart ==
    (Returned("validateEventSetup") /\ EventDatesParse)
        => /\ EventSpan < 0
                  => /\ HasError("end_date", "End date must be after start date")
                     /\ ~HasError("end_date", "Event duration cannot exceed 365 days")
           /\ EventSpan = 0
                  => /\ ~HasError("end_date", "End date must be after start date")
                     /\ ~HasError("end_date", "Event duration cannot exceed 365 days")

\* An event ending before it starts was validated and told so.
C9_Witness ==
    /\ Returned("validateEventSetup")
    /\ EventDatesParse
    /\ EventSpan < 0
    /\ HasError("end_date", "End date must be after start date")

\* C10: when both dates parse, the 365-day error is reported exactly when
\* the span rounded up to whole days exceeds 365, that is when the span is
\* longer than 365 days: exactly 365 days pass, 400 days do not.
C10_SpanLimit ==
    (Returned("validateEventSetup") /\ EventDatesParse)
        => /\ HasError("end_date", "Event duration cannot exceed 365 days")
                  <=> EventSpan > 365 * 1440
           /\ EventSpan = 365 * 1440
                  => ~HasError("end_date", "Event duration cannot exceed 365 days")
           /\ EventSpan = 400 * 1440
                  => HasError("end_date", "Event duration cannot exceed 365 days")

\* An event of exactly 365 days was validated without the 365-day error.
C10_Witness ==
    /\ Returned("validateEventSetup")
    /\ EventDatesParse
    /\ EventSpan = 365 * 1440
    /\ ~HasError("end_date", "Event duration cannot exceed 365 days")

\* The instant of UTC midnight of the calendar date the local clock shows.
LocalCalendarDate == ((now - tz) \div MinutesPerDay) * MinutesPerDay

\* The three date-range errors of validateEventSetup.
HasDateRangeError ==
    \/ HasError("start_date", "Start date cannot be in the past")
    \/ HasError("end_date", "End date must be after start date")
    \/ HasError("end_date", "Event duration cannot exceed 365 days")

\* C11: 'Start date cannot be in the past' is reported only when both dates
\* parse and the start is strictly before today at 00:00; a start_date that
\* names today's calendar date never gets it; and when either date is missing
\* or unparseable none of the three date-range errors is reported.
C11_PastStart ==
    Returned("validateEventSetup")
        => /\ HasError("start_date", "Start date cannot be in the past")
                  => EventDatesParse /\ DateValue(args.start_date) < Today
           /\ (/\ EventDatesParse
               /\ IsDateOnly(args.start_date)
               /\ DateValue(args.start_date) = LocalCalendarDate)
                  => ~HasError("start_date", "Start date cannot be in the past")
           /\ ~EventDatesParse => ~HasDateRangeError

\* The optional-field rules of validateEventSetup, in the order the claim lists them.
EventOptionalFields ==
    <<"description", "organizer_email", "organizer_phone", "organization_website",
      "primary_color", "accent_color", "organization_name", "organizer_name">>

\* The place of the rule an error of validateEventSetup comes from, in the
\* claimed order: name, start_date, end_date, past start, end before start,
\* over 365 days, then the optional fields.
EventRuleOf(e) ==
    IF e.field = "name" THEN 1
    ELSE IF e = Err("start_date", "Start date cannot be in the past") THEN 4
    ELSE IF e = Err("end_date", "End date must be after start date") THEN 5
    ELSE IF e = Err("end_date", "Event duration cannot exceed 365 days") THEN 6
    ELSE IF e.field = "start_date" THEN 2
    ELSE IF e.field = "end_date" THEN 3
    ELSE 6 + SetMin({k \in DOMAIN EventOptionalFields : EventOptionalFields[k] = e.field})

\* Whether the validated event breaks the rule at place r.
EventRuleBroken(r) ==
    CASE r = 1 -> Blank(args.name) \/ Len(args.name) < 3 \/ Len(args.name) > 100
      [] r = 2 -> ~Truthy(args.start_date) \/ ~validateDate(args.start_date)
      [] r = 3 -> ~Truthy(args.end_date) \/ ~validateDate(args.end_date)
      [] r = 4 -> EventDatesParse /\ DateValue(args.start_date) < Today
      [] r = 5 -> EventDatesParse /\ EventSpan < 0
      [] r = 6 -> EventDatesParse /\ EventSpan > 365 * MinutesPerDay
      [] r = 7 -> Truthy(args.description) /\ Len(args.description) > 500
      [] r = 8 -> Truthy(args.organizer_email) /\ ~validateEmail(args.organizer_email)
      [] r = 9 -> Truthy(args.organizer_phone) /\ ~validatePhone(args.organizer_phone)
      [] r = 10 -> Truthy(args.organization_website)
                       /\ ~validateUrl(args.organization_website)
      [] r = 11 -> Truthy(args.primary_color) /\ ~validateColor(args.primary_color)
      [] r = 12 -> Truthy(args.accent_color) /\ ~validateColor(args.accent_color)
      [] r = 13 -> Truthy(args.organization_name) /\ Len(args.organization_name) > 100
      [] r = 14 -> Truthy(args.organizer_name) /\ Len(args.organizer_name) > 100

\* C12: validateEventSetup evaluates every rule whatever failed before it:
\* the errors come in the order name, start_date, end_date, past start, end
\* before start, over 365 days, description, organizer_email,
\* organizer_phone, organization_website, primary_color, accent_color,
\* organization_name, organizer_name, and every broken rule has exactly one
\* error in the list.
C12_EveryRuleInOrder ==
    Returned("validateEventSetup")
        => /\ \A i, j \in DOMAIN result.errors :
                  i < j => EventRuleOf(result.errors[i]) < EventRuleOf(result.errors[j])
           /\ \A r \in 1..14 :
                  EventRuleBroken(r)
                      <=> \E i \in DOMAIN result.errors : EventRuleOf(result.errors[i]) = r

\* An event that breaks the name rule, both date rules and every optional
\* rule was validated and got an error for each.
C12_Witness ==
    /\ Returned("validateEventSetup")
    /\ \A r \in {1, 2, 3} \cup 7..14 : EventRuleBroken(r)
    /\ Len(result.errors) = 11

\* Year, month and day of a YYYY-MM-DD string.
CivilDate(s) ==
    <<ToNumber(SubSeq(s, 1, 4)), ToNumber(SubSeq(s, 6, 7)), ToNumber(SubSeq(s, 9, 10))>>

\* Calendar date a is strictly before calendar date b.
CalendarBefore(a, b) ==
    LET x == CivilDate(a)
        y == CivilDate(b)
    IN  \/ x[1] < y[1]
        \/ x[1] = y[1] /\ x[2] < y[2]
        \/ x[1] = y[1] /\ x[2] = y[2] /\ x[3] < y[3]

SessionRangeError == HasError("date", "Session date must be within the event date range")

\* C13: validateSession reports 'Session date must be within the event date
\* range' exactly when the session date is valid, both event bounds are
\* supplied, and the date is strictly before the start or strictly after the
\* end; a date equal to either bound is accepted, and with either bound not
\* supplied there is no range error.
C13_SessionDateRange ==
    Returned("validateSession")
        => /\ SessionRangeError
                  <=> /\ Truthy(args.session.date) /\ validateDate(args.session.date)
                      /\ Truthy(args.eventStartDate) /\ Truthy(args.eventEndDate)
                      /\ \/ CalendarBefore(args.session.date, args.eventStartDate)
                         \/ CalendarBefore(args.eventEndDate, args.session.date)
           /\ (args.session.date = args.eventStartDate
                   \/ args.session.date = args.eventEndDate)
                  => ~SessionRangeError
           /\ (~Truthy(args.eventStartDate) \/ ~Truthy(args.eventEndDate))
                  => ~SessionRangeError

\* A session on the last day of an event with both bounds supplied was
\* validated without the range error.
C13_Witness ==
    /\ Returned("validateSession")
    /\ Truthy(args.eventStartDate)
    /\ Truthy(args.session.date)
    /\ args.session.date = args.eventEndDate
    /\ ~SessionRangeError

\* The fields of an attendee that validateAttendee has a rule for.
AttendeeFields == {"email", "first_name", "last_name", "company", "job_title", "phone"}

\* Non-empty after trimming, with a length of 2 to 50.
AttendeeNameAccepted(value) ==
    /\ Truthy(value)
    /\ Len(Trim(value)) > 0
    /\ Len(value) \in 2..50

\* Whether the validated attendee breaks the rule of field f.
AttendeeFieldBroken(f) ==
    CASE f = "email" -> ~(/\ Truthy(args.email)
                          /\ Len(Trim(args.email)) > 0
                          /\ validateEmail(args.email))
      [] f = "first_name" -> ~AttendeeNameAccepted(args.first_name)
      [] f = "last_name" -> ~AttendeeNameAccepted(args.last_name)
      [] f = "company" -> Truthy(args.company) /\ Len(args.company) > 100
      [] f = "job_title" -> Truthy(args.job_title) /\ Len(args.job_title) > 100
      [] f = "phone" -> Truthy(args.phone) /\ ~validatePhone(args.phone)

\* The number of errors of the result tagged with field f.
ErrorCount(f) == Cardinality({i \in DOMAIN result.errors : result.errors[i].field = f})

\* C14: validateAttendee reports isValid = true exactly when the email is
\* non-empty after trimming and a valid email, first_name and last_name are
\* non-empty after trimming with 2 to 50 characters, company and job_title
\* are absent or at most 100 characters long, and phone is absent or a valid
\* phone; every field that breaks its rule has exactly one error tagged with
\* it and no other field has any.
C14_AttendeeRules ==
    Returned("validateAttendee")
        => /\ result.isValid <=> \A f \in AttendeeFields : ~AttendeeFieldBroken(f)
           /\ \A f \in AttendeeFields :
                  ErrorCount(f) = IF AttendeeFieldBroken(f) THEN 1 ELSE 0
           /\ \A i \in DOMAIN result.errors : result.errors[i].field \in AttendeeFields

\* An attendee with a 50-letter first name, a 100-letter company and a
\* formatted phone number was validated and accepted.
C14_Witness ==
    /\ Returned("validateAttendee")
    /\ Len(args.first_name) = 50
    /\ Truthy(args.company) /\ Len(args.company) = 100
    /\ Truthy(args.phone)
    /\ result.isValid

\* The three errors validateVenue can report.
VenueNameError == Err("venue_name", "Venue name must be less than 200 characters")

VenueAddressError == Err("venue_address", "Venue address must be less than 500 characters")

VenueLinkError == Err("venue_maps_link", "Please enter a valid Google Maps URL")

\* The errors the validated venue record calls for, judged from its three
\* venue fields alone.
VenueErrorsDue ==
    {e \in {VenueNameError} : Truthy(args.venue_name) /\ Len(args.venue_name) > 200}
    \cup {e \in {VenueAddressError} :
              Truthy(args.venue_address) /\ Len(args.venue_address) > 500}
    \cup {e \in {VenueLinkError} :
              Truthy(args.venue_maps_link) /\ ~validateUrl(args.venue_maps_link)}

\* C15: validateVenue treats every field as optional; its only errors are a
\* venue_name longer than 200 characters, a venue_address longer than 500
\* characters and a present venue_maps_link that is not a URL; no other field
\* of the record has any influence on the result.
C15_VenueRules ==
    Returned("validateVenue")
        => /\ {result.errors[i] : i \in DOMAIN result.errors} = VenueErrorsDue
           /\ Len(result.errors) = Cardinality(VenueErrorsDue)
           /\ result.isValid <=> VenueErrorsDue = {}

\* A record with empty venue fields and a malformed organizer_email was
\* validated and accepted.
C15_Witness ==
    /\ Returned("validateVenue")
    /\ args.venue_name = <<>>
    /\ args.venue_address = <<>>
    /\ args.venue_maps_link = <<>>
    /\ Truthy(args.organizer_email) /\ ~validateEmail(args.organizer_email)
    /\ result.isValid

(***************************************************************************)
(* The primitive validators called on their own.  A second specification   *)
(* draws a text from the bounded sets below and applies the primitive.     *)
(***************************************************************************)

\* Longest text given to validateTime.
MaxTimeLen == 5

\* One character of each class the time pattern tells apart ([0-1], 2, 3,
\* [4-5], [6-9]) and the colon.
TimeAlphabet == {"0", "2", "3", "5", "9", ":"}

\* '24:00', '9:60', '9:5', '009:00'
TimesToReject == {<<"2", "4", ":", "0", "0">>, <<"9", ":", "6", "0">>, <<"9", ":", "5">>, <<"0", "0", "9", ":", "0", "0">>}

\* '0:00', '9:05', '23:59'
TimesToAccept == {<<"0", ":", "0", "0">>, <<"9", ":", "0", "5">>, <<"2", "3", ":", "5", "9">>}

\* '', '19:59', '14:00', ' 9:05', '9:05 ', '9:05\n', '9.05', '09:00:00'
OtherTimes == {<<>>, <<"1", "9", ":", "5", "9">>, <<"1", "4", ":", "0", "0">>, <<" ", "9", ":", "0", "5">>, <<"9", ":", "0", "5", " ">>, <<"9", ":", "0", "5", "\n">>, <<"9", ".", "0", "5">>, <<"0", "9", ":", "0", "0", ":", "0", "0">>}

TimeTexts ==
    SeqsUpTo(TimeAlphabet, MaxTimeLen) \cup TimesToReject \cup TimesToAccept \cup OtherTimes

\* Most digits after the first one in a text given to validatePhone.
MaxPhoneDigits == 17

PhonePrefixes == {<<>>, <<"+">>, <<"+", "+">>}

PhoneLeads == {"0", "1", "9"}

\* Characters put before, inside and after the digits: the ones the
\* validator strips, and a dot and a letter.
PhoneMarks == {" ", "-", "(", ")", "\t", "\n", ".", "x"}

\* An optional sign, a first digit and up to MaxPhoneDigits further digits.
PhoneBodies ==
    {p \o <<d>> \o Repeat("5", n) : p \in PhonePrefixes, d \in PhoneLeads, n \in 0..MaxPhoneDigits}

\* The text b with the character m put after its first k characters.
Marked(b, m, k) == SubSeq(b, 1, k) \o <<m>> \o SubSeq(b, k + 1, Len(b))

\* The bodies bare and with one mark, every text of up to 3 characters over
\* a sign, two digits, a space and a hyphen, the empty text, and
\* '+1 (555) 123-4567'.
PhoneTexts ==
    PhoneBodies
    \cup {Marked(b, m, k) : b \in PhoneBodies, m \in PhoneMarks, k \in {0, 1}}
    \cup {Marked(b, m, Len(b)) : b \in PhoneBodies, m \in PhoneMarks}
    \cup SeqsUpTo({"+", "0", "1", " ", "-"}, 3)
    \cup {<<>>, <<"+", "1", " ", "(", "5", "5", "5", ")", " ", "1", "2", "3", "-", "4", "5", "6", "7">>}

\* Most characters after the prefix in a text given to validateColor.
MaxColorDigits == 8

\* The hexadecimal digits a colour body is written with, in turn.
ColorPattern == <<"1", "A", "2", "b", "3", "C", "4", "d", "5", "E", "6", "f">>

ColorBody(n) == [i \in 1..n |-> ColorPattern[((i - 1) % Len(ColorPattern)) + 1]]

ColorPrefixes == {<<>>, <<"#">>, <<"#", "#">>}

\* Characters that are not hexadecimal digits.
ColorBlots == {"g", "G", " ", "#", "\n"}

\* The bodies of 0 to MaxColorDigits digits, bare and with one character
\* replaced by a blot.
ColorBodies ==
    {ColorBody(n) : n \in 0..MaxColorDigits}
    \cup UNION {{[ColorBody(n) EXCEPT ![k] = m] : k \in 1..n, m \in ColorBlots} :
                   n \in 1..MaxColorDigits}

\* '#FFF', '#1A2B3C', '#abc', '#abcdef'
ColorsToAccept == {<<"#", "F", "F", "F">>, <<"#", "1", "A", "2", "B", "3", "C">>, <<"#", "a", "b", "c">>, <<"#", "a", "b", "c", "d", "e", "f">>}

\* '123456', '#12', '#1234', '#12345'
ColorsToReject == {<<"1", "2", "3", "4", "5", "6">>, <<"#", "1", "2">>, <<"#", "1", "2", "3", "4">>, <<"#", "1", "2", "3", "4", "5">>}

ColorTexts ==
    {p \o b : p \in ColorPrefixes, b \in ColorBodies} \cup ColorsToAccept \cup ColorsToReject

PrimitiveInit ==
    /\ pc = "ready"
    /\ result = NoResult
    /\ ScreensIdle
    /\ now = DefaultNow
    /\ tz = 0
    /\ \/ /\ fn = "validateTime"
          /\ args \in TimeTexts
       \/ /\ fn = "validatePhone"
          /\ args \in PhoneTexts
       \/ /\ fn = "validateColor"
          /\ args \in ColorTexts

CallValidateTime ==
    /\ pc = "ready" /\ fn = "validateTime"
    /\ result' = validateTime(args)
    /\ pc' = "done"
    /\ UNCHANGED <<fn, args, now, tz>>
    /\ UNCHANGED screenVars

CallValidatePhone ==
    /\ pc = "ready" /\ fn = "validatePhone"
    /\ result' = validatePhone(args)
    /\ pc' = "done"
    /\ UNCHANGED <<fn, args, now, tz>>
    /\ UNCHANGED screenVars

CallValidateColor ==
    /\ pc = "ready" /\ fn = "validateColor"
    /\ result' = validateColor(args)
    /\ pc' = "done"
    /\ UNCHANGED <<fn, args, now, tz>>
    /\ UNCHANGED screenVars

PrimitiveNext ==
    \/ CallValidateTime
    \/ CallValidatePhone
    \/ CallValidateColor

PrimitiveSpec == PrimitiveInit /\ [][PrimitiveNext]_vars

\* The text is H:MM or HH:MM with the hour in 0..23 and the minute in 0..59.
TimeShape(t) ==
    \E h \in {1, 2} :
        /\ Len(t) = h + 3
        /\ t[h + 1] = ":"
        /\ AllIn(SubSeq(t, 1, h), Digits)
        /\ AllIn(SubSeq(t, h + 2, h + 3), Digits)
        /\ ToNumber(SubSeq(t, 1, h)) \in 0..23
        /\ ToNumber(SubSeq(t, h + 2, h + 3)) \in 0..59

\* C19: validateTime accepts a text exactly when it is H:MM or HH:MM with the
\* hour in 0..23 and a two-digit minute in 00..59; '24:00', '9:60', '9:5' and
\* '009:00' are rejected, '0:00', '9:05' and '23:59' are accepted.
C19_TimeShape ==
    Returned("validateTime")
        => /\ result <=> TimeShape(args)
           /\ args \in TimesToReject => ~result
           /\ args \in TimesToAccept => result

\* '23:59' was validated and accepted.
C19_Witness ==
    /\ Returned("validateTime")
    /\ args = <<"2", "3", ":", "5", "9">>
    /\ result = TRUE

\* What is left of a phone text once white space, hyphens and parentheses
\* are taken out.
PhoneRemainder == SelectSeq(args, LAMBDA c : c \notin WhiteSpace /\ c \notin {"-", "(", ")"})

\* The remainder is an optional single leading '+', a digit 1-9 and up to 15
\* further digits.
PhoneShape(r) ==
    LET signs == {i \in DOMAIN r : r[i] = "+"}
        first == Cardinality(signs) + 1
    IN  /\ signs \subseteq {1}
        /\ \A i \in DOMAIN r \ signs : r[i] \in Digits
        /\ Len(r) - Cardinality(signs) \in 1..16
        /\ DigitVal(r[first]) \in 1..9

\* C20: validatePhone accepts a text exactly when, with every space (any
\* white-space character), hyphen and parenthesis removed, the remainder is
\* an optional single leading '+', one digit 1-9 and 0 to 15 further digits;
\* a remainder that starts with 0, has 17 or more digits, or is empty is
\* rejected.
C20_PhoneShape ==
    Returned("validatePhone")
        => /\ result <=> PhoneShape(PhoneRemainder)
           /\ (\/ PhoneRemainder = <<>>
               \/ PhoneRemainder[1] = "0"
               \/ Cardinality({i \in DOMAIN PhoneRemainder : PhoneRemainder[i] \in Digits}) >= 17)
                  => ~result

\* A signed 16-digit number written with a mark that is stripped was
\* validated and accepted.
C20_Witness ==
    /\ Returned("validatePhone")
    /\ Len(args) = 18
    /\ Len(PhoneRemainder) = 17
    /\ PhoneRemainder[1] = "+"
    /\ result = TRUE

(***************************************************************************)
(* The screens.  A third specification mounts one screen and runs its      *)
(* handlers: every handler is one action up to its first await, and what   *)
(* it does after an await is the action taken when the store answers.      *)
(* The store is an external collaborator: every request in flight may      *)
(* succeed or fail.  Routing is outside the model, except that a screen    *)
(* whose event is not found leaves for the dashboard.                      *)
(***************************************************************************)

\* Most store calls a run issues on the dashboard, event and schedule screens.
MaxStoreCalls == 2

\* The record r with field f set to v, added if r has no such field.
With(r, f, v) == [g \in DOMAIN r \cup {f} |-> IF g = f THEN v ELSE r[g]]

\* delete newErrors[field]
Without(r, f) == [g \in DOMAIN r \ {f} |-> r[g]]

\* A map that keeps the first error's field only.
ErrorMapFirstField(errors) ==
    [f \in {errors[i].field : i \in DOMAIN errors \cap {1}} |-> errors[1].message]

\* const newErrors = {}; errors.forEach(error => { newErrors[error.field] = error.message })
ErrorMap(errors) ==
    [f \in {errors[i].field : i \in DOMAIN errors} |->
        errors[SetMax({i \in DOMAIN errors : errors[i].field = f})].message]

\* validation.errors.find(error => error.field === field), as a list of at most one error.
FindError(errors, field) ==
    LET found == {i \in DOMAIN errors : errors[i].field = field}
    IN  IF found = {} THEN <<>> ELSE <<errors[SetMin(found)]>>

\* value || fallback
Or(value, fallback) == IF Truthy(value) THEN value ELSE fallback

\* The user action that ran a validator and, perhaps, issued a store call.
Ran(handler, validator, validated, verdict, call, written) ==
    [handler |-> handler, validator |-> validator, validated |-> validated,
     verdict |-> verdict, call |-> call, written |-> written]

\* The user action that ran no validator.
Unvalidated(handler, call, written) ==
    Ran(handler, "none", NoData, NoVerdict, call, written)

\* The user action that changed one field of a form.
Edited(handler, field) ==
    Ran(handler, "none", [field |-> field], NoVerdict, "none", NoData)

\* pending with one more request, numbered seq + 1.
Issued(op, data, by) ==
    pending \cup {[n |-> seq + 1, op |-> op, data |-> data, by |-> by]}

\* The requests of one kind a handler has in flight.
InFlight(op, by) == {r \in pending : r.op = op /\ r.by = by}

\* One digit as a character, and numbers as zero-padded decimal text.
DigitChar(d) == CHOOSE c \in Digits : DigitVal(c) = d

TwoDigits(n) == <<DigitChar(n \div 10), DigitChar(n % 10)>>

FourDigits(n) == TwoDigits(n \div 100) \o TwoDigits(n % 100)

\* Year, month and day of the day n days after 1970-01-01.
CivilFromDays(n) ==
    CHOOSE c \in ((1970 + n \div 366)..(1970 + n \div 365)) \X (1..12) \X (1..31) :
        c[3] <= DaysInMonth(c[1], c[2]) /\ DaysFromCivil(c[1], c[2], c[3]) = n

\* new Date(t).toISOString().split('T')[0]: the UTC calendar date of instant t.
IsoDate(t) ==
    LET c == CivilFromDays(t \div MinutesPerDay)
    IN  FourDigits(c[1]) \o <<"-">> \o TwoDigits(c[2]) \o <<"-">> \o TwoDigits(c[3])

\* The event the store holds: 'New Conference' from 2030-06-16 to 2030-06-17,
\* as the dashboard created it, with nothing else set.
StoredEvent ==
    [id |-> <<"e", "v", "t", "_", "1">>, name |-> <<"N", "e", "w", " ", "C", "o", "n", "f", "e", "r", "e", "n", "c", "e">>,
     description |-> <<"C", "o", "n", "f", "e", "r", "e", "n", "c", "e", " ", "d", "e", "s", "c", "r", "i", "p", "t", "i", "o", "n">>,
     start_date |-> <<"2", "0", "3", "0", "-", "0", "6", "-", "1", "6">>, end_date |-> <<"2", "0", "3", "0", "-", "0", "6", "-", "1", "7">>,
     primary_color |-> Undefined, accent_color |-> Undefined,
     organizer_name |-> Undefined, organizer_email |-> Undefined,
     organizer_phone |-> Undefined, organization_name |-> Undefined,
     organization_website |-> Undefined, venue_name |-> Undefined,
     venue_address |-> Undefined, venue_maps_link |-> Undefined]

\* useState<Event | null>(null)
NoEvent == [id |-> "null"]

(***************************************************************************)
(* Dashboard                                                               *)
(***************************************************************************)

DashboardMounted ==
    [screen |-> "Dashboard", loading |-> TRUE, user |-> "null", events |-> <<>>]

\* loadData: auth.me() and events.list() both answer, the list fails, or
\* auth.me() fails; loading ends in every case.
DashboardLoaded ==
    /\ ui.screen = "Dashboard" /\ ui.loading
    /\ \/ \E events \in {<<>>, <<StoredEvent>>} :
              ui' = [ui EXCEPT !.user = "user_1", !.events = events, !.loading = FALSE]
       \/ ui' = [ui EXCEPT !.user = "user_1", !.loading = FALSE]
       \/ ui' = [ui EXCEPT !.loading = FALSE]
    /\ UNCHANGED <<pending, lastAction, seq, store>>
    /\ UNCHANGED callVars

\* The record createNewEvent writes.
NewEventData ==
    [name |-> <<"N", "e", "w", " ", "C", "o", "n", "f", "e", "r", "e", "n", "c", "e">>, description |-> <<"C", "o", "n", "f", "e", "r", "e", "n", "c", "e", " ", "d", "e", "s", "c", "r", "i", "p", "t", "i", "o", "n">>,
     start_date |-> IsoDate(now), end_date |-> IsoDate(now + MinutesPerDay),
     status |-> <<"d", "r", "a", "f", "t">>, attendee_count |-> 0, user_id |-> ui.user]

\* createNewEvent up to its await.  Without a user, user.id throws inside
\* the try block and the catch shows a toast.
CreateNewEvent ==
    /\ ui.screen = "Dashboard" /\ ~ui.loading
    /\ \/ /\ ui.user = "null"
          /\ lastAction' = Unvalidated("createNewEvent", "none", NoData)
          /\ UNCHANGED <<pending, seq>>
       \/ /\ ui.user # "null" /\ seq < MaxStoreCalls
          /\ pending' = Issued("events.create", NewEventData, "createNewEvent")
          /\ seq' = seq + 1
          /\ lastAction' = Unvalidated("createNewEvent", "events.create", NewEventData)
    /\ UNCHANGED <<ui, store>>
    /\ UNCHANGED callVars

\* createNewEvent after its await: the new event goes first in the list.
CreateNewEventSettled ==
    /\ ui.screen = "Dashboard"
    /\ \E r \in InFlight("events.create", "createNewEvent") :
           /\ pending' = pending \ {r}
           /\ \/ ui' = [ui EXCEPT !.events = <<With(r.data, "id", r.n)>> \o @]
              \/ UNCHANGED ui
    /\ UNCHANGED <<lastAction, seq, store>>
    /\ UNCHANGED callVars

(***************************************************************************)
(* EventSetup                                                              *)
(***************************************************************************)

EmptyEventData ==
    [id |-> <<>>, name |-> <<>>, description |-> <<>>, start_date |-> <<>>,
     end_date |-> <<>>, primary_color |-> <<"#", "6", "3", "6", "6", "F", "1">>, accent_color |-> <<"#", "F", "5", "9", "E", "0", "B">>,
     organizer_name |-> <<>>, organizer_email |-> <<>>, organizer_phone |-> <<>>,
     organization_name |-> <<>>, organization_website |-> <<>>]

EventSetupMounted ==
    [screen |-> "EventSetup", loading |-> TRUE, saving |-> FALSE,
     validationErrors |-> <<>>, fieldErrors |-> NoErrors, eventData |-> EmptyEventData]

\* setEventData({id: event.id, name: event.name || '', ...})
LoadedEventData(event) ==
    [f \in DOMAIN EmptyEventData |->
        IF f = "id" THEN event.id ELSE Or(event[f], EmptyEventData[f])]

\* loadEvent: the event is found, is not found (the screen leaves for the
\* dashboard), or the list fails.
EventSetupLoaded ==
    /\ ui.screen = "EventSetup" /\ ui.loading
    /\ \/ ui' = [ui EXCEPT !.eventData = LoadedEventData(StoredEvent), !.loading = FALSE]
       \/ ui' = DashboardMounted
       \/ ui' = [ui EXCEPT !.loading = FALSE]
    /\ UNCHANGED <<pending, lastAction, seq, store>>
    /\ UNCHANGED callVars

\* What the organiser types into the event form: name 'Go', 'ValidConf';
\* start_date '2030-06-14'; end_date '2030-06-15', '2030-06-17';
\* organizer_email 'a@b'.
EventEdits ==
    {<<"name", <<"G", "o">>>>, <<"name", <<"V", "a", "l", "i", "d", "C", "o", "n", "f">>>>,
     <<"start_date", <<"2", "0", "3", "0", "-", "0", "6", "-", "1", "4">>>>,
     <<"end_date", <<"2", "0", "3", "0", "-", "0", "6", "-", "1", "5">>>>, <<"end_date", <<"2", "0", "3", "0", "-", "0", "6", "-", "1", "7">>>>,
     <<"organizer_email", <<"a", "@", "b">>>>}

\* handleInputChange(field, value) setting the field errors anew from the
\* validation of the whole form.
ChangedFieldErrorsOfAll(fieldErrors, tempData, field) ==
    ErrorMap(validateEventSetup(tempData).errors)

\* The field errors after handleInputChange(field, value): the entry of the
\* field is dropped, and for the three critical fields the first error the
\* validator has for the field is put back.
ChangedFieldErrors(fieldErrors, tempData, field) ==
    LET cleared == Without(fieldErrors, field)
        fieldError == FindError(validateEventSetup(tempData).errors, field)
    IN  IF field \in {"name", "start_date", "end_date"} /\ fieldError # <<>>
        THEN With(cleared, field, fieldError[1].message)
        ELSE cleared

HandleInputChange ==
    /\ ui.screen = "EventSetup" /\ ~ui.loading
    /\ \E edit \in EventEdits :
           /\ ui' = [ui EXCEPT
                        !.eventData = [@ EXCEPT ![edit[1]] = edit[2]],
                        !.fieldErrors =
                            ChangedFieldErrors(@, [ui.eventData EXCEPT ![edit[1]] = edit[2]],
                                               edit[1])]
           /\ lastAction' = Edited("handleInputChange", edit[1])
    /\ UNCHANGED <<pending, seq, store>>
    /\ UNCHANGED callVars

\* A click on the quick colour theme 'Blue': handleInputChange for
\* primary_color and then for accent_color.
ApplyColorTheme ==
    /\ ui.screen = "EventSetup" /\ ~ui.loading
    /\ ui' = [ui EXCEPT
                 !.eventData = [@ EXCEPT !.primary_color = <<"#", "3", "B", "8", "2", "F", "6">>,
                                         !.accent_color = <<"#", "E", "F", "4", "4", "4", "4">>],
                 !.fieldErrors = Without(Without(@, "primary_color"), "accent_color")]
    /\ lastAction' = Unvalidated("applyColorTheme", "none", NoData)
    /\ UNCHANGED <<pending, seq, store>>
    /\ UNCHANGED callVars

\* handleSave up to its await; the Save button is disabled while saving.
HandleSave ==
    /\ ui.screen = "EventSetup" /\ ~ui.loading /\ ~ui.saving
    /\ LET validation == validateEventSetup(ui.eventData)
       IN  \/ /\ ~validation.isValid
              /\ ui' = [ui EXCEPT !.validationErrors = validation.errors,
                                  !.fieldErrors = ErrorMap(validation.errors)]
              /\ lastAction' = Ran("handleSave", "validateEventSetup", ui.eventData,
                                   validation, "none", NoData)
              /\ UNCHANGED <<pending, seq>>
           \/ /\ validation.isValid
              /\ seq < MaxStoreCalls
              /\ ui' = [ui EXCEPT !.validationErrors = <<>>, !.fieldErrors = NoErrors,
                                  !.saving = TRUE]
              /\ pending' = Issued("events.update",
                                   With(ui.eventData, "updated_at", now), "handleSave")
              /\ seq' = seq + 1
              /\ lastAction' = Ran("handleSave", "validateEventSetup", ui.eventData,
                                   validation, "events.update",
                                   With(ui.eventData, "updated_at", now))
    /\ UNCHANGED store
    /\ UNCHANGED callVars

\* handleSave after its await: a toast either way, and saving ends.
HandleSaveSettled ==
    /\ ui.screen = "EventSetup"
    /\ \E r \in InFlight("events.update", "handleSave") :
           pending' = pending \ {r}
    /\ ui' = [ui EXCEPT !.saving = FALSE]
    /\ UNCHANGED <<lastAction, seq, store>>
    /\ UNCHANGED callVars

(***************************************************************************)
(* AppConfiguration                                                        *)
(***************************************************************************)

\* The new-session form with every field empty but the date.
EmptySession(date) ==
    [title |-> <<>>, description |-> <<>>, speaker |-> <<>>, start_time |-> <<>>,
     end_time |-> <<>>, venue |-> <<>>, date |-> date]

AppConfigurationMounted ==
    [screen |-> "AppConfiguration", loading |-> TRUE, saving |-> FALSE,
     event |-> NoEvent, sessions |-> <<>>, sessionErrors |-> NoErrors,
     venueErrors |-> NoErrors, newSession |-> EmptySession(<<>>)]

\* A session the store already holds: 'Opening', 09:00 to 10:00 on 2030-06-16.
StoredSession ==
    With(With([EmptySession(<<"2", "0", "3", "0", "-", "0", "6", "-", "1", "6">>) EXCEPT !.title = <<"O", "p", "e", "n", "i", "n", "g">>,
                                                  !.start_time = <<"0", "9", ":", "0", "0">>,
                                                  !.end_time = <<"1", "0", ":", "0", "0">>],
              "eventId", <<"e", "v", "t", "_", "1">>), "id", 0)

\* loadEventAndSessions: both lists answer, the event is not found (the
\* screen leaves for the dashboard), the sessions list fails, or the events
\* list fails.
AppConfigurationLoaded ==
    /\ ui.screen = "AppConfiguration" /\ ui.loading
    /\ \/ ui' = [ui EXCEPT !.event = StoredEvent, !.sessions = store.sessions,
                           !.newSession = [@ EXCEPT !.date = StoredEvent.start_date],
                           !.loading = FALSE]
       \/ ui' = DashboardMounted
       \/ ui' = [ui EXCEPT !.event = StoredEvent, !.loading = FALSE]
       \/ ui' = [ui EXCEPT !.loading = FALSE]
    /\ UNCHANGED <<pending, lastAction, seq, store>>
    /\ UNCHANGED callVars

\* The screen shows its forms once loading is over and an event is held.
ConfigurationShown == ui.screen = "AppConfiguration" /\ ~ui.loading /\ ui.event # NoEvent

\* What the organiser types into the new-session form: title 'Keynote';
\* start_time '09:00'; end_time '10:00', '08:00'.
SessionEdits ==
    {<<"title", <<"K", "e", "y", "n", "o", "t", "e">>>>, <<"start_time", <<"0", "9", ":", "0", "0">>>>,
     <<"end_time", <<"1", "0", ":", "0", "0">>>>, <<"end_time", <<"0", "8", ":", "0", "0">>>>}

\* onChange of a new-session field: setNewSession(prev => ({...prev, [field]: value}))
SetNewSession ==
    /\ ConfigurationShown
    /\ \E edit \in SessionEdits :
           ui' = [ui EXCEPT !.newSession = [@ EXCEPT ![edit[1]] = edit[2]]]
    /\ lastAction' = Unvalidated("setNewSession", "none", NoData)
    /\ UNCHANGED <<pending, seq, store>>
    /\ UNCHANGED callVars

\* The record addSession writes: the form, the route's event id and a fresh id.
SessionData == With(With(ui.newSession, "eventId", <<"e", "v", "t", "_", "1">>), "id", seq + 1)

\* addSession up to its await; the Add Session button is disabled while saving.
AddSession ==
    /\ ConfigurationShown /\ ~ui.saving
    /\ LET validation ==
               validateSession(ui.newSession, ui.event.start_date, ui.event.end_date)
       IN  \/ /\ ~validation.isValid
              /\ ui' = [ui EXCEPT !.sessionErrors = ErrorMap(validation.errors)]
              /\ lastAction' = Ran("addSession", "validateSession", ui.newSession,
                                   validation, "none", NoData)
              /\ UNCHANGED <<pending, seq>>
           \/ /\ validation.isValid
              /\ seq < MaxStoreCalls
              /\ ui' = [ui EXCEPT !.sessionErrors = NoErrors, !.saving = TRUE]
              /\ pending' = Issued("eventSessions.create", SessionData, "addSession")
              /\ seq' = seq + 1
              /\ lastAction' = Ran("addSession", "validateSession", ui.newSession,
                                   validation, "eventSessions.create", SessionData)
    /\ UNCHANGED store
    /\ UNCHANGED callVars

\* A continuation that appends the session and keeps the form as it is.
AddSessionSettledKeepsForm ==
    /\ ui.screen = "AppConfiguration"
    /\ \E r \in InFlight("eventSessions.create", "addSession") :
           /\ pending' = pending \ {r}
           /\ \/ /\ store' = [store EXCEPT !.sessions = Append(@, r.data)]
                 /\ ui' = [ui EXCEPT !.sessions = Append(@, r.data), !.saving = FALSE]
              \/ /\ UNCHANGED store
                 /\ ui' = [ui EXCEPT !.saving = FALSE]
    /\ UNCHANGED <<lastAction, seq>>
    /\ UNCHANGED callVars

\* addSession after its await: on success the session is stored and appended
\* and the form reset; saving ends either way.
AddSessionSettled ==
    /\ ui.screen = "AppConfiguration"
    /\ \E r \in InFlight("eventSessions.create", "addSession") :
           /\ pending' = pending \ {r}
           /\ \/ /\ store' = [store EXCEPT !.sessions = Append(@, r.data)]
                 /\ ui' = [ui EXCEPT
                              !.sessions = Append(@, r.data),
                              !.newSession = EmptySession(Or(ui.event.start_date, <<>>)),
                              !.saving = FALSE]
              \/ /\ UNCHANGED store
                 /\ ui' = [ui EXCEPT !.saving = FALSE]
    /\ UNCHANGED <<lastAction, seq>>
    /\ UNCHANGED callVars

\* removeSession up to its await, for a listed session.
RemoveSession ==
    /\ ConfigurationShown
    /\ seq < MaxStoreCalls
    /\ \E i \in DOMAIN ui.sessions :
           /\ pending' = Issued("eventSessions.delete", [id |-> ui.sessions[i].id],
                                "removeSession")
           /\ lastAction' = Unvalidated("removeSession", "eventSessions.delete",
                                  [id |-> ui.sessions[i].id])
    /\ seq' = seq + 1
    /\ UNCHANGED <<ui, store>>
    /\ UNCHANGED callVars

\* A continuation that takes the session off the list whatever the store answers.
RemoveSessionSettledOptimistic ==
    /\ ui.screen = "AppConfiguration"
    /\ \E r \in InFlight("eventSessions.delete", "removeSession") :
           /\ pending' = pending \ {r}
           /\ ui' = [ui EXCEPT !.sessions = SelectSeq(@, LAMBDA s : s.id # r.data.id)]
           /\ \/ store' = [store EXCEPT
                              !.sessions = SelectSeq(@, LAMBDA s : s.id # r.data.id)]
              \/ UNCHANGED store
    /\ UNCHANGED <<lastAction, seq>>
    /\ UNCHANGED callVars

\* removeSession after its await: on success the session leaves the store
\* and the list.
RemoveSessionSettled ==
    /\ ui.screen = "AppConfiguration"
    /\ \E r \in InFlight("eventSessions.delete", "removeSession") :
           /\ pending' = pending \ {r}
           /\ \/ /\ store' = [store EXCEPT
                                 !.sessions = SelectSeq(@, LAMBDA s : s.id # r.data.id)]
                 /\ ui' = [ui EXCEPT
                              !.sessions = SelectSeq(@, LAMBDA s : s.id # r.data.id)]
              \/ UNCHANGED <<ui, store>>
    /\ UNCHANGED <<lastAction, seq>>
    /\ UNCHANGED callVars

\* What the organiser types into the venue fields: venue_maps_link
\* 'maps.google.com'.
VenueEdits ==
    {<<"venue_maps_link", <<"m", "a", "p", "s", ".", "g", "o", "o", "g", "l", "e", ".", "c", "o", "m">>>>}

\* onChange of a venue or organiser field: setEvent(prev => ({...prev, [field]: value}))
SetEvent ==
    /\ ConfigurationShown
    /\ \E edit \in VenueEdits :
           ui' = [ui EXCEPT !.event = [@ EXCEPT ![edit[1]] = edit[2]]]
    /\ lastAction' = Unvalidated("setEvent", "none", NoData)
    /\ UNCHANGED <<pending, seq, store>>
    /\ UNCHANGED callVars

\* The argument of updateVenueDetails on blur of a field: {[field]: e.target.value}.
VenueData(field) == [f \in {field} |-> Or(ui.event[field], <<>>)]

\* The same record as validateVenue reads it: the fields it lacks are undefined.
VenueRead(venueData) ==
    [f \in DOMAIN venueData \cup {"venue_name", "venue_address", "venue_maps_link"} |->
        IF f \in DOMAIN venueData THEN venueData[f] ELSE Undefined]

\* updateVenueDetails up to its await, on blur of the maps-link field; the
\* other venue and organiser fields call it the same way.
UpdateVenueDetails ==
    /\ ConfigurationShown
    /\ \E field \in {"venue_maps_link"} :
           LET validation == validateVenue(VenueRead(VenueData(field)))
           IN  \/ /\ ~validation.isValid
                  /\ ui' = [ui EXCEPT !.venueErrors = ErrorMap(validation.errors)]
                  /\ lastAction' = Ran("updateVenueDetails", "validateVenue",
                                       VenueData(field), validation, "none", NoData)
                  /\ UNCHANGED <<pending, seq>>
               \/ /\ validation.isValid
                  /\ seq < MaxStoreCalls
                  /\ ui' = [ui EXCEPT !.venueErrors = NoErrors, !.saving = TRUE]
                  /\ pending' = Issued("events.update", VenueData(field),
                                       "updateVenueDetails")
                  /\ seq' = seq + 1
                  /\ lastAction' = Ran("updateVenueDetails", "validateVenue",
                                       VenueData(field), validation, "events.update",
                                       VenueData(field))
    /\ UNCHANGED store
    /\ UNCHANGED callVars

\* {...prev, ...venueData}
Merged(event, venueData) ==
    [f \in DOMAIN event |-> IF f \in DOMAIN venueData THEN venueData[f] ELSE event[f]]

\* updateVenueDetails after its await: on success the written fields are
\* merged into the event; saving ends either way.
UpdateVenueSettled ==
    /\ ui.screen = "AppConfiguration"
    /\ \E r \in InFlight("events.update", "updateVenueDetails") :
           /\ pending' = pending \ {r}
           /\ \/ ui' = [ui EXCEPT !.event = Merged(@, r.data), !.saving = FALSE]
              \/ ui' = [ui EXCEPT !.saving = FALSE]
    /\ UNCHANGED <<lastAction, seq, store>>
    /\ UNCHANGED callVars

(***************************************************************************)
(* AttendeeManagement                                                      *)
(***************************************************************************)

\* The writes to the attendee lists a run issues; each is followed by a reload.
MaxAttendeeWrites == 1

EmptyAttendee ==
    [email |-> <<>>, first_name |-> <<>>, last_name |-> <<>>, company |-> <<>>,
     job_title |-> <<>>, phone |-> <<>>]

\* An attendee the store already holds: c@d.io, Cy Di.
StoredAttendee ==
    With(With([EmptyAttendee EXCEPT !.email = <<"c", "@", "d", ".", "i", "o">>, !.first_name = <<"C", "y">>,
                                    !.last_name = <<"D", "i">>],
              "event_id", <<"e", "v", "t", "_", "1">>), "id", <<0, 1>>)

AttendeeManagementMounted ==
    [screen |-> "AttendeeManagement", loading |-> TRUE, uploading |-> FALSE,
     showAddDialog |-> FALSE, csvData |-> <<>>, csvError |-> "",
     attendeeErrors |-> NoErrors, newAttendee |-> EmptyAttendee,
     attendees |-> <<>>, event |-> NoEvent]

\* loadEventAndAttendees when the screen mounts: the lists answer or fail.
AttendeeManagementLoaded ==
    /\ ui.screen = "AttendeeManagement" /\ ui.loading
    /\ \/ ui' = [ui EXCEPT !.event = StoredEvent, !.attendees = store.attendees,
                           !.loading = FALSE]
       \/ ui' = [ui EXCEPT !.attendees = store.attendees, !.loading = FALSE]
       \/ ui' = [ui EXCEPT !.loading = FALSE]
    /\ UNCHANGED <<pending, lastAction, seq, store>>
    /\ UNCHANGED callVars

\* The files the organiser picks: 'email,first_name,last_name\na@b.co,Al,Bo'
\* 'email,first_name,last_name\nbad,A,Bo' and an empty file.
CsvFiles ==
    {<<"e", "m", "a", "i", "l", ",", "f", "i", "r", "s", "t", "_", "n", "a", "m", "e", ",", "l", "a", "s", "t", "_", "n", "a", "m", "e", "\n", "a", "@", "b", ".", "c", "o", ",", "A", "l", ",", "B", "o">>,
     <<"e", "m", "a", "i", "l", ",", "f", "i", "r", "s", "t", "_", "n", "a", "m", "e", ",", "l", "a", "s", "t", "_", "n", "a", "m", "e", "\n", "b", "a", "d", ",", "A", ",", "B", "o">>,
     <<>>}

\* validateCsvDataLocal(content) for each of the files.
FileValidation == [content \in CsvFiles |-> validateCsvData(content)]

\* reader.onload of handleFileUpload: setCsvData(content) and validateCsvDataLocal(content).
HandleFileUpload ==
    /\ ui.screen = "AttendeeManagement" /\ ~ui.loading
    /\ \E content \in CsvFiles :
           /\ ui' = [ui EXCEPT
                        !.csvData = content,
                        !.csvError = IF FileValidation[content].isValid THEN ""
                                     ELSE FileValidation[content].errors[1].message]
           /\ lastAction' = Ran("handleFileUpload", "validateCsvData",
                                [csvData |-> content], FileValidation[content],
                                "none", NoData)
    /\ UNCHANGED <<pending, seq, store>>
    /\ UNCHANGED callVars

\* headers.forEach((header, index) => { if (values[index]) attendee[header] = values[index] })
\* over { event_id: eventId }.
ParsedAttendee(headers, values) ==
    LET set == {i \in DOMAIN headers : i <= Len(values) /\ Truthy(values[i])}
    IN  [h \in {Str(headers[i]) : i \in set} \cup {"event_id"} |->
            IF \E i \in set : Str(headers[i]) = h
            THEN values[SetMax({i \in set : Str(headers[i]) = h})]
            ELSE <<"e", "v", "t", "_", "1">>]

\* The records processCsvUpload makes of the data lines of the held text.
NewAttendees(csvData) ==
    LET lines == Split(Trim(csvData), "\n")
    IN  [k \in 1..(Len(lines) - 1) |->
            ParsedAttendee(CsvHeaders(lines[1]), CsvValues(lines[k + 1]))]

\* The records processCsvUpload makes of each of the files.
FileAttendees == [content \in CsvFiles |-> NewAttendees(content)]

\* An upload that does not look at csvError.
ProcessCsvUploadUnchecked ==
    /\ ui.screen = "AttendeeManagement" /\ ~ui.loading
    /\ Truthy(ui.csvData) /\ ~ui.uploading
    /\ seq < MaxAttendeeWrites
    /\ ui' = [ui EXCEPT !.uploading = TRUE]
    /\ pending' = Issued("attendees.createMany", [rows |-> FileAttendees[ui.csvData]],
                         "processCsvUpload")
    /\ lastAction' = Unvalidated("processCsvUpload", "attendees.createMany",
                                 [rows |-> FileAttendees[ui.csvData]])
    /\ seq' = seq + 1
    /\ UNCHANGED store
    /\ UNCHANGED callVars

\* processCsvUpload up to its await.  The Upload button is shown when csvData
\* is not empty and is disabled while there is a csvError or an upload runs.
ProcessCsvUpload ==
    /\ ui.screen = "AttendeeManagement" /\ ~ui.loading
    /\ Truthy(ui.csvData) /\ ui.csvError = "" /\ ~ui.uploading
    /\ seq < MaxAttendeeWrites
    /\ ui' = [ui EXCEPT !.uploading = TRUE]
    /\ pending' = Issued("attendees.createMany", [rows |-> FileAttendees[ui.csvData]],
                         "processCsvUpload")
    /\ lastAction' = Unvalidated("processCsvUpload", "attendees.createMany",
                                 [rows |-> FileAttendees[ui.csvData]])
    /\ seq' = seq + 1
    /\ UNCHANGED store
    /\ UNCHANGED callVars

\* The request that reloads the lists after the write r.
Reload(r) == [n |-> r.n, op |-> "attendees.list", data |-> r.data, by |-> r.by]

\* The store's attendees with the rows added, each under a fresh id.
Stored(rows, n) ==
    [store EXCEPT !.attendees = @ \o [k \in DOMAIN rows |-> With(rows[k], "id", <<n, k>>)]]

\* processCsvUpload when createMany answers: on success the lists are
\* reloaded, on failure the upload ends.
UploadSettled ==
    /\ ui.screen = "AttendeeManagement"
    /\ \E r \in InFlight("attendees.createMany", "processCsvUpload") :
           \/ /\ store' = Stored(r.data.rows, r.n)
              /\ pending' = (pending \ {r}) \cup {Reload(r)}
              /\ UNCHANGED ui
           \/ /\ pending' = pending \ {r}
              /\ ui' = [ui EXCEPT !.uploading = FALSE]
              /\ UNCHANGED store
    /\ UNCHANGED <<lastAction, seq>>
    /\ UNCHANGED callVars

\* The screen after loadEventAndAttendees answers a reload: the lists are
\* taken when it succeeds; loading is set to false either way.
Reloaded(u, ok) ==
    IF ok THEN [u EXCEPT !.event = StoredEvent, !.attendees = store.attendees,
                         !.loading = FALSE]
    ELSE [u EXCEPT !.loading = FALSE]

\* processCsvUpload after the reload: the text is cleared and the upload ends.
UploadReloaded ==
    /\ ui.screen = "AttendeeManagement"
    /\ \E r \in InFlight("attendees.list", "processCsvUpload") :
           /\ pending' = pending \ {r}
           /\ \E ok \in BOOLEAN :
                  ui' = [Reloaded(ui, ok) EXCEPT !.csvData = <<>>, !.uploading = FALSE]
    /\ UNCHANGED <<lastAction, seq, store>>
    /\ UNCHANGED callVars

\* onOpenChange of the Add Attendee dialog, and its Cancel button.
SetShowAddDialog ==
    /\ ui.screen = "AttendeeManagement" /\ ~ui.loading
    /\ ui' = [ui EXCEPT !.showAddDialog = ~@]
    /\ lastAction' = Unvalidated("setShowAddDialog", "none", NoData)
    /\ UNCHANGED <<pending, seq, store>>
    /\ UNCHANGED callVars

\* What the organiser types into the dialog: email 'a@b.co'; first_name
\* 'Al'; last_name 'Bo'.
AttendeeEdits ==
    {<<"email", <<"a", "@", "b", ".", "c", "o">>>>, <<"first_name", <<"A", "l">>>>, <<"last_name", <<"B", "o">>>>}

\* onChange of a dialog field: setNewAttendee(prev => ({...prev, [field]: value}))
SetNewAttendee ==
    /\ ui.screen = "AttendeeManagement" /\ ~ui.loading /\ ui.showAddDialog
    /\ \E edit \in AttendeeEdits :
           ui' = [ui EXCEPT !.newAttendee = [@ EXCEPT ![edit[1]] = edit[2]]]
    /\ lastAction' = Unvalidated("setNewAttendee", "none", NoData)
    /\ UNCHANGED <<pending, seq, store>>
    /\ UNCHANGED callVars

\* addSingleAttendee up to its await.
AddSingleAttendee ==
    /\ ui.screen = "AttendeeManagement" /\ ~ui.loading /\ ui.showAddDialog
    /\ LET validation == validateAttendee(ui.newAttendee)
       IN  \/ /\ ~validation.isValid
              /\ ui' = [ui EXCEPT !.attendeeErrors = ErrorMap(validation.errors)]
              /\ lastAction' = Ran("addSingleAttendee", "validateAttendee",
                                   ui.newAttendee, validation, "none", NoData)
              /\ UNCHANGED <<pending, seq>>
           \/ /\ validation.isValid
              /\ seq < MaxAttendeeWrites
              /\ ui' = [ui EXCEPT !.attendeeErrors = NoErrors]
              /\ pending' = Issued("attendees.create",
                                   With(ui.newAttendee, "event_id", <<"e", "v", "t", "_", "1">>),
                                   "addSingleAttendee")
              /\ seq' = seq + 1
              /\ lastAction' = Ran("addSingleAttendee", "validateAttendee",
                                   ui.newAttendee, validation, "attendees.create",
                                   With(ui.newAttendee, "event_id", <<"e", "v", "t", "_", "1">>))
    /\ UNCHANGED store
    /\ UNCHANGED callVars

\* addSingleAttendee when create answers: on success the lists are reloaded.
AddAttendeeSettled ==
    /\ ui.screen = "AttendeeManagement"
    /\ \E r \in InFlight("attendees.create", "addSingleAttendee") :
           \/ /\ store' = Stored(<<r.data>>, r.n)
              /\ pending' = (pending \ {r}) \cup {Reload(r)}
           \/ /\ pending' = pending \ {r}
              /\ UNCHANGED store
    /\ UNCHANGED <<ui, lastAction, seq>>
    /\ UNCHANGED callVars

\* addSingleAttendee after the reload: the dialog is emptied and closed.
AddAttendeeReloaded ==
    /\ ui.screen = "AttendeeManagement"
    /\ \E r \in InFlight("attendees.list", "addSingleAttendee") :
           /\ pending' = pending \ {r}
           /\ \E ok \in BOOLEAN :
                  ui' = [Reloaded(ui, ok) EXCEPT !.newAttendee = EmptyAttendee,
                                                 !.showAddDialog = FALSE]
    /\ UNCHANGED <<lastAction, seq, store>>
    /\ UNCHANGED callVars

\* deleteAttendee up to its await, for a listed attendee.
DeleteAttendee ==
    /\ ui.screen = "AttendeeManagement" /\ ~ui.loading
    /\ seq < MaxAttendeeWrites
    /\ \E i \in DOMAIN ui.attendees :
           /\ pending' = Issued("attendees.delete", [id |-> ui.attendees[i].id],
                                "deleteAttendee")
           /\ lastAction' = Unvalidated("deleteAttendee", "attendees.delete",
                                  [id |-> ui.attendees[i].id])
    /\ seq' = seq + 1
    /\ UNCHANGED <<ui, store>>
    /\ UNCHANGED callVars

\* deleteAttendee when delete answers: on success the lists are reloaded.
DeleteAttendeeSettled ==
    /\ ui.screen = "AttendeeManagement"
    /\ \E r \in InFlight("attendees.delete", "deleteAttendee") :
           \/ /\ store' = [store EXCEPT
                                 !.attendees = SelectSeq(@, LAMBDA a : a.id # r.data.id)]
              /\ pending' = (pending \ {r}) \cup {Reload(r)}
           \/ /\ pending' = pending \ {r}
              /\ UNCHANGED store
    /\ UNCHANGED <<ui, lastAction, seq>>
    /\ UNCHANGED callVars

\* deleteAttendee after the reload.
DeleteAttendeeReloaded ==
    /\ ui.screen = "AttendeeManagement"
    /\ \E r \in InFlight("attendees.list", "deleteAttendee") :
           /\ pending' = pending \ {r}
           /\ \E ok \in BOOLEAN : ui' = Reloaded(ui, ok)
    /\ UNCHANGED <<lastAction, seq, store>>
    /\ UNCHANGED callVars

(***************************************************************************)
(* AppPreview                                                              *)
(***************************************************************************)

AppPreviewMounted ==
    [screen |-> "AppPreview", loading |-> TRUE, event |-> NoEvent,
     sessions |-> <<>>, attendees |-> <<>>, previewMode |-> "mobile",
     currentView |-> "welcome", verificationCode |-> <<>>, userEmail |-> <<>>,
     isAuthenticated |-> FALSE]

\* loadEventData: the three lists answer with the event, answer without it,
\* or one of them fails; loading ends in every case.
AppPreviewLoaded ==
    /\ ui.screen = "AppPreview" /\ ui.loading
    /\ \/ ui' = [ui EXCEPT !.event = StoredEvent, !.sessions = store.sessions,
                           !.attendees = store.attendees, !.loading = FALSE]
       \/ ui' = [ui EXCEPT !.sessions = store.sessions,
                           !.attendees = store.attendees, !.loading = FALSE]
       \/ ui' = [ui EXCEPT !.loading = FALSE]
    /\ UNCHANGED <<pending, lastAction, seq, store>>
    /\ UNCHANGED callVars

\* The preview is rendered once loading has ended and the event is there.
PreviewShown == ui.screen = "AppPreview" /\ ~ui.loading /\ ui.event # NoEvent

\* The views behind the verification step.
ProtectedViews == {"schedule", "attendees", "profile"}

\* What the visitor types as e-mail address: 'a@b.co' or nothing.
EmailsTyped == {<<"a", "@", "b", ".", "c", "o">>, <<>>}

\* What the visitor types as code (the input takes six characters at most):
\* '123456', '123457', '12345' or nothing.
CodesTyped ==
    {<<"1", "2", "3", "4", "5", "6">>, <<"1", "2", "3", "4", "5", "7">>,
     <<"1", "2", "3", "4", "5">>, <<>>}

\* onChange of the e-mail input of the welcome view.
SetUserEmail ==
    /\ PreviewShown /\ ui.currentView = "welcome"
    /\ \E email \in EmailsTyped : ui' = [ui EXCEPT !.userEmail = email]
    /\ lastAction' = Unvalidated("setUserEmail", "none", NoData)
    /\ UNCHANGED <<pending, seq, store>>
    /\ UNCHANGED callVars

\* 'Get Access Code', disabled while the e-mail is empty.
GetAccessCode ==
    /\ PreviewShown /\ ui.currentView = "welcome"
    /\ ui.userEmail # <<>>
    /\ ui' = [ui EXCEPT !.currentView = "verify"]
    /\ lastAction' = Unvalidated("getAccessCode", "none", NoData)
    /\ UNCHANGED <<pending, seq, store>>
    /\ UNCHANGED callVars

\* onChange of the code input of the verify view.
SetVerificationCode ==
    /\ PreviewShown /\ ui.currentView = "verify"
    /\ \E code \in CodesTyped : ui' = [ui EXCEPT !.verificationCode = code]
    /\ lastAction' = Unvalidated("setVerificationCode", "none", NoData)
    /\ UNCHANGED <<pending, seq, store>>
    /\ UNCHANGED callVars

\* handleVerification with every six-character code taken for the right one.
HandleVerificationAnyCode ==
    /\ PreviewShown /\ ui.currentView = "verify"
    /\ Len(ui.verificationCode) = 6
    /\ ui' = [ui EXCEPT !.isAuthenticated = TRUE, !.currentView = "schedule"]
    /\ lastAction' = Unvalidated("handleVerification", "none", NoData)
    /\ UNCHANGED <<pending, seq, store>>
    /\ UNCHANGED callVars

\* 'Verify & Continue', disabled unless the code has six characters.
HandleVerification ==
    /\ PreviewShown /\ ui.currentView = "verify"
    /\ Len(ui.verificationCode) = 6
    /\ IF ui.verificationCode = <<"1", "2", "3", "4", "5", "6">>
       THEN ui' = [ui EXCEPT !.isAuthenticated = TRUE, !.currentView = "schedule"]
       ELSE UNCHANGED ui
    /\ lastAction' = Unvalidated("handleVerification", "none", NoData)
    /\ UNCHANGED <<pending, seq, store>>
    /\ UNCHANGED callVars

\* 'Back' on the verify view.
BackToWelcome ==
    /\ PreviewShown /\ ui.currentView = "verify"
    /\ ui' = [ui EXCEPT !.currentView = "welcome"]
    /\ lastAction' = Unvalidated("backToWelcome", "none", NoData)
    /\ UNCHANGED <<pending, seq, store>>
    /\ UNCHANGED callVars

\* The three tabs of the schedule, attendees and profile views; a view and
\* its tabs are rendered only when isAuthenticated holds.
SelectTab ==
    /\ PreviewShown /\ ui.currentView \in ProtectedViews /\ ui.isAuthenticated
    /\ \E tab \in ProtectedViews : ui' = [ui EXCEPT !.currentView = tab]
    /\ lastAction' = Unvalidated("selectTab", "none", NoData)
    /\ UNCHANGED <<pending, seq, store>>
    /\ UNCHANGED callVars

\* The preview controls with the buttons of the protected views selecting
\* the view and nothing more.
ShowScreenViewOnly ==
    /\ PreviewShown
    /\ \/ ui' = [ui EXCEPT !.currentView = "welcome", !.isAuthenticated = FALSE]
       \/ \E view \in {"verify"} \cup ProtectedViews : ui' = [ui EXCEPT !.currentView = view]
    /\ lastAction' = Unvalidated("showScreen", "none", NoData)
    /\ UNCHANGED <<pending, seq, store>>
    /\ UNCHANGED callVars

\* The preview controls: 'Welcome Screen' signs the visitor out, 'Email
\* Verification' only selects the view, and the buttons of the protected
\* views sign the visitor in.
ShowScreen ==
    /\ PreviewShown
    /\ \/ ui' = [ui EXCEPT !.currentView = "welcome", !.isAuthenticated = FALSE]
       \/ ui' = [ui EXCEPT !.currentView = "verify"]
       \/ \E view \in ProtectedViews :
              ui' = [ui EXCEPT !.currentView = view, !.isAuthenticated = TRUE]
    /\ lastAction' = Unvalidated("showScreen", "none", NoData)
    /\ UNCHANGED <<pending, seq, store>>
    /\ UNCHANGED callVars

\* 'Desktop View' / 'Mobile View'.
SetPreviewMode ==
    /\ PreviewShown
    /\ ui' = [ui EXCEPT !.previewMode = IF @ = "mobile" THEN "desktop" ELSE "mobile"]
    /\ lastAction' = Unvalidated("setPreviewMode", "none", NoData)
    /\ UNCHANGED <<pending, seq, store>>
    /\ UNCHANGED callVars

(***************************************************************************)
(* GeneratedApp                                                            *)
(***************************************************************************)

GeneratedAppMounted == [screen |-> "GeneratedApp", loading |-> TRUE, event |-> NoEvent]

\* loadEvent with setLoading(false) in the catch block only.
GeneratedAppLoadedOnFailure ==
    /\ ui.screen = "GeneratedApp" /\ ui.loading /\ ui.event = NoEvent
    /\ \/ ui' = [ui EXCEPT !.event = StoredEvent]
       \/ ui' = [ui EXCEPT !.loading = FALSE]
    /\ UNCHANGED <<pending, lastAction, seq, store>>
    /\ UNCHANGED callVars

\* loadEvent: the event is found, is not found, or the list fails; loading
\* ends in every case.
GeneratedAppLoaded ==
    /\ ui.screen = "GeneratedApp" /\ ui.loading
    /\ \/ ui' = [ui EXCEPT !.event = StoredEvent, !.loading = FALSE]
       \/ ui' = [ui EXCEPT !.loading = FALSE]
    /\ UNCHANGED <<pending, lastAction, seq, store>>
    /\ UNCHANGED callVars

(***************************************************************************)
(* The screens' specification                                              *)
(***************************************************************************)

ScreenInit ==
    /\ pc = "screen"
    /\ fn = "none"
    /\ args = <<>>
    /\ result = NoResult
    /\ now = DefaultNow
    /\ tz = 0
    /\ ui \in {DashboardMounted, EventSetupMounted, AppConfigurationMounted,
               AttendeeManagementMounted, AppPreviewMounted, GeneratedAppMounted}
    /\ pending = {}
    /\ lastAction = NoAction
    /\ seq = 0
    /\ store = [attendees |-> <<StoredAttendee>>, sessions |-> <<StoredSession>>]

ScreenNext ==
    \/ DashboardLoaded
    \/ CreateNewEvent
    \/ CreateNewEventSettled
    \/ EventSetupLoaded
    \/ HandleInputChange
    \/ ApplyColorTheme
    \/ HandleSave
    \/ HandleSaveSettled
    \/ AppConfigurationLoaded
    \/ SetNewSession
    \/ AddSession
    \/ AddSessionSettled
    \/ RemoveSession
    \/ RemoveSessionSettled
    \/ SetEvent
    \/ UpdateVenueDetails
    \/ UpdateVenueSettled
    \/ AttendeeManagementLoaded
    \/ HandleFileUpload
    \/ ProcessCsvUpload
    \/ UploadSettled
    \/ UploadReloaded
    \/ SetShowAddDialog
    \/ SetNewAttendee
    \/ AddSingleAttendee
    \/ AddAttendeeSettled
    \/ AddAttendeeReloaded
    \/ DeleteAttendee
    \/ DeleteAttendeeSettled
    \/ DeleteAttendeeReloaded
    \/ AppPreviewLoaded
    \/ SetUserEmail
    \/ GetAccessCode
    \/ SetVerificationCode
    \/ HandleVerification
    \/ BackToWelcome
    \/ SelectTab
    \/ ShowScreen
    \/ SetPreviewMode
    \/ GeneratedAppLoaded

ScreenSpec == ScreenInit /\ [][ScreenNext]_vars

(***************************************************************************)
(* Validation before persistence                                           *)
(***************************************************************************)

\* The store-mutating calls of the screens.
StoreMutations ==
    {"events.create", "events.update", "eventSessions.create", "eventSessions.delete",
     "attendees.create", "attendees.createMany", "attendees.delete"}

\* C17: every store-mutating call is issued by a user action that ran an
\* entity or batch validator and got isValid = true from it.
C17_ValidatedBeforeStoreCall ==
    lastAction.call \in StoreMutations
        => lastAction.validator # "none" /\ lastAction.verdict.isValid

\* The handlers that stop on a failed validation.
ValidatingHandlers == {"handleSave", "addSession", "updateVenueDetails", "addSingleAttendee"}

\* The field-error map the handler sets.
FieldErrorsOf(u, handler) ==
    CASE handler = "handleSave" -> u.fieldErrors
      [] handler = "addSession" -> u.sessionErrors
      [] handler = "updateVenueDetails" -> u.venueErrors
      [] handler = "addSingleAttendee" -> u.attendeeErrors

\* The record lists the screen holds.
LocalLists(u) ==
    CASE u.screen = "AppConfiguration" -> u.sessions
      [] u.screen = "AttendeeManagement" -> u.attendees
      [] OTHER -> <<>>

\* The map has an entry for every field the errors name and for no other,
\* each with a message reported for that field.
ShowsEvery(map, errors) ==
    /\ DOMAIN map = {errors[i].field : i \in DOMAIN errors}
    /\ \A f \in DOMAIN map :
           \E i \in DOMAIN errors : errors[i].field = f /\ errors[i].message = map[f]

\* C18: when handleSave, addSession, updateVenueDetails or addSingleAttendee
\* gets isValid = false, the step issues no store call, leaves the record
\* lists and the store unchanged, and sets the handler's field-error map to
\* one with an entry for every field the errors name, each with a message
\* reported for that field.
C18_FailedValidationBlocks ==
    [][(/\ lastAction' # lastAction
        /\ lastAction'.handler \in ValidatingHandlers
        /\ ~lastAction'.verdict.isValid)
           => /\ pending' = pending /\ seq' = seq /\ store' = store
              /\ lastAction'.call = "none"
              /\ LocalLists(ui') = LocalLists(ui)
              /\ ShowsEvery(FieldErrorsOf(ui', lastAction'.handler),
                            lastAction'.verdict.errors)]_vars

\* addSingleAttendee has just rejected a form with several fields in error.
C18_Witness ==
    /\ lastAction.handler = "addSingleAttendee"
    /\ ~lastAction.verdict.isValid
    /\ Cardinality(DOMAIN ui.attendeeErrors) >= 2
    /\ pending = {}

(***************************************************************************)
(* Hex colours                                                             *)
(***************************************************************************)

\* A decimal digit or one of the letters a to f in either case.
IsHexChar(c) == c \in Digits \/ LowerChar(c) \in {"a", "b", "c", "d", "e", "f"}

\* The text is '#' followed by exactly n hexadecimal digits.
HashAndDigits(c, n) ==
    /\ Len(c) = n + 1
    /\ c[1] = "#"
    /\ \A i \in 2..(n + 1) : IsHexChar(c[i])

\* C21: validateColor accepts a text exactly when it is '#' followed by
\* exactly 3 or exactly 6 hexadecimal digits of either case; '#FFF' and
\* '#1A2B3C' are accepted; '123456', '#12' and the 4- and 5-digit forms are
\* rejected.
C21_ColorShape ==
    Returned("validateColor")
        => /\ result <=> (HashAndDigits(args, 3) \/ HashAndDigits(args, 6))
           /\ args \in ColorsToAccept => result
           /\ args \in ColorsToReject => ~result
           /\ (\E n \in {4, 5} : HashAndDigits(args, n)) => ~result

\* '#1A2b3C' was validated and accepted.
C21_Witness ==
    /\ Returned("validateColor")
    /\ args = <<"#", "1", "A", "2", "b", "3", "C">>
    /\ result = TRUE

(***************************************************************************)
(* The message a form keeps for a field                                    *)
(***************************************************************************)

\* C22: after a failed handleSave, addSession, updateVenueDetails or
\* addSingleAttendee, the message the form keeps for a field is the first
\* error the validator returned for that field, the one handleInputChange
\* selects with find.
C22_KeepsFirstError ==
    [][(/\ lastAction' # lastAction
        /\ lastAction'.handler \in ValidatingHandlers
        /\ ~lastAction'.verdict.isValid)
           => \A f \in DOMAIN FieldErrorsOf(ui', lastAction'.handler) :
                  FieldErrorsOf(ui', lastAction'.handler)[f]
                      = FindError(lastAction'.verdict.errors, f)[1].message]_vars

(***************************************************************************)
(* The saving flag of the schedule configuration                           *)
(***************************************************************************)

\* C23: while an eventSessions.create started by addSession is in flight,
\* saving is true, whatever updateVenueDetails calls interleave; and at most
\* one such create is in flight.
C23_SavingWhileCreating ==
    ui.screen = "AppConfiguration"
        => /\ InFlight("eventSessions.create", "addSession") # {} => ui.saving
           /\ Cardinality(InFlight("eventSessions.create", "addSession")) <= 1

(***************************************************************************)
(* The outcome of addSession                                               *)
(***************************************************************************)

\* The new-session form with empty fields and the given date.
ResetForm(date) ==
    [title |-> <<>>, description |-> <<>>, speaker |-> <<>>, start_time |-> <<>>,
     end_time |-> <<>>, venue |-> <<>>, date |-> date]

\* C24: when the eventSessions.create of addSession is answered, no other
\* store call is made and saving becomes false; if the create succeeded (the
\* store holds the session) exactly that session is appended at the end of
\* the local list and the form is reset to empty fields with the event's
\* start_date; if it failed the local list and the form are unchanged.
C24_AddSessionOutcome ==
    [][\A r \in InFlight("eventSessions.create", "addSession") :
           r \notin pending'
               => /\ pending' = pending \ {r}
                  /\ seq' = seq
                  /\ ~ui'.saving
                  /\ IF store'.sessions # store.sessions
                     THEN /\ store'.sessions = Append(store.sessions, r.data)
                          /\ ui'.sessions = Append(ui.sessions, r.data)
                          /\ ui'.newSession = ResetForm(ui.event.start_date)
                     ELSE /\ ui'.sessions = ui.sessions
                          /\ ui'.newSession = ui.newSession]_vars

\* A create has succeeded: the stored session added by addSession is last in
\* the local list, the form is empty and saving is over.
C24_Witness ==
    /\ ui.screen = "AppConfiguration"
    /\ ui.sessions # <<>>
    /\ ui.sessions[Len(ui.sessions)] # StoredSession
    /\ ui.sessions[Len(ui.sessions)] = store.sessions[Len(store.sessions)]
    /\ ui.newSession = ResetForm(ui.event.start_date)
    /\ ~ui.saving
    /\ pending = {}

(***************************************************************************)
(* The outcome of removeSession                                            *)
(***************************************************************************)

InList(s, list) == \E i \in DOMAIN list : list[i] = s

\* C25: a listed session that the store still holds stays listed, so a
\* session leaves the local list only once its store delete has succeeded;
\* and the step that answers the delete of an id changes the local list at
\* most by dropping the sessions with that id.
C25_RemovedOnlyWhenDeleted ==
    [][(ui.screen = "AppConfiguration" /\ ui'.screen = "AppConfiguration")
           => /\ \A i \in DOMAIN ui.sessions :
                     InList(ui.sessions[i], store'.sessions)
                         => InList(ui.sessions[i], ui'.sessions)
              /\ \A r \in InFlight("eventSessions.delete", "removeSession") :
                     r \notin pending'
                         => \/ ui'.sessions = ui.sessions
                            \/ /\ ui'.sessions =
                                      SelectSeq(ui.sessions, LAMBDA s : s.id # r.data.id)
                               /\ \A i \in DOMAIN store'.sessions :
                                      store'.sessions[i].id # r.data.id]_vars

\* A delete has succeeded: the session the store held at the start is gone
\* from the store and from the shown list.
C25_Witness ==
    /\ ui.screen = "AppConfiguration" /\ ~ui.loading /\ ui.event # NoEvent
    /\ ~InList(StoredSession, store.sessions)
    /\ ~InList(StoredSession, ui.sessions)
    /\ pending = {}

(***************************************************************************)
(* The attendee import                                                     *)
(***************************************************************************)

\* The requests of processCsvUpload in flight.
Uploads(op) == InFlight(op, "processCsvUpload")

\* C26: attendees.createMany is issued only when the held csvData is not
\* empty, csvError is empty and validateCsvData of the held csvData is valid;
\* apart from the pick of a file, which answers no request, csvData changes
\* only when the reload that follows a successful createMany is answered, and
\* then it is emptied;
\* and when an upload ends, by a failed createMany or by the reload after a
\* successful one, uploading is false.
C26_UploadGate ==
    [][(ui.screen = "AttendeeManagement" /\ ui'.screen = "AttendeeManagement")
           => /\ (\E r \in pending' \ pending : r.op = "attendees.createMany")
                     => /\ ui.csvData # <<>>
                        /\ ui.csvError = ""
                        /\ validateCsvData(ui.csvData).isValid
              /\ ui'.csvData # ui.csvData
                     => \/ /\ lastAction'.handler = "handleFileUpload"
                           /\ pending' = pending
                        \/ /\ ui'.csvData = <<>>
                           /\ \E r \in Uploads("attendees.list") : r \notin pending'
              /\ \A r \in Uploads("attendees.createMany") \cup Uploads("attendees.list") :
                     (\A q \in pending' : q.n # r.n) => ~ui'.uploading]_vars

\* An upload has succeeded: the store holds the row of the file, csvData is
\* empty and uploading is over.
C26_Witness ==
    /\ ui.screen = "AttendeeManagement"
    /\ lastAction.call = "attendees.createMany"
    /\ Len(store.attendees) = 2
    /\ ui.attendees = store.attendees
    /\ ui.csvData = <<>>
    /\ ~ui.uploading
    /\ pending = {}

(***************************************************************************)
(* The app preview                                                         *)
(***************************************************************************)

\* C27: in the app preview, whenever currentView is 'schedule', 'attendees'
\* or 'profile', isAuthenticated is true: no sequence of welcome and verify
\* navigation, verification attempts, tab clicks and preview-control
\* clicks selects a protected view while unauthenticated.
C27_ProtectedViewsAuthenticated ==
    (ui.screen = "AppPreview" /\ ui.currentView \in ProtectedViews) => ui.isAuthenticated

\* A tab click has selected the profile view after a sign-in.
C27_Witness ==
    /\ ui.screen = "AppPreview"
    /\ ui.currentView = "profile"
    /\ ui.isAuthenticated
    /\ lastAction.handler = "selectTab"

\* C28: handleVerification sets isAuthenticated to true and currentView to
\* 'schedule' when the code entered is '123456'; with any other code it
\* leaves both as they were, so that the step signs the visitor in exactly
\* when the code is '123456', whatever the e-mail entered.
C28_VerificationByCodeOnly ==
    [][(ui.screen = "AppPreview" /\ lastAction'.handler = "handleVerification")
           => /\ ui.verificationCode = <<"1", "2", "3", "4", "5", "6">>
                     => ui'.isAuthenticated /\ ui'.currentView = "schedule"
              /\ ui.verificationCode # <<"1", "2", "3", "4", "5", "6">>
                     => /\ ui'.isAuthenticated = ui.isAuthenticated
                        /\ ui'.currentView = ui.currentView
              /\ ui'.userEmail = ui.userEmail]_vars

\* The code '123456' has signed in a visitor who entered no e-mail.
C28_Witness ==
    /\ ui.screen = "AppPreview"
    /\ lastAction.handler = "handleVerification"
    /\ ui.verificationCode = <<"1", "2", "3", "4", "5", "6">>
    /\ ui.userEmail = <<>>
    /\ ui.isAuthenticated
    /\ ui.currentView = "schedule"

(***************************************************************************)
(* The loading spinner                                                     *)
(***************************************************************************)

\* The screens when the store answers every list call of a mounting screen,
\* with a result or with a failure, and the continuation of the load runs.
ScreenLiveSpec ==
    /\ ScreenInit
    /\ [][ScreenNext]_vars
    /\ WF_vars(DashboardLoaded)
    /\ WF_vars(EventSetupLoaded)
    /\ WF_vars(AppConfigurationLoaded)
    /\ WF_vars(AppPreviewLoaded)
    /\ WF_vars(AttendeeManagementLoaded)
    /\ WF_vars(GeneratedAppLoaded)

\* C29: whichever of the six screens is mounted, a loading spinner on
\* screen is eventually gone, whether the list call succeeds, fails or
\* finds no event: the loading flag of the screen becomes false, or (event
\* screens whose event is not found) the screen is left for the dashboard
\* and the dashboard's loading flag becomes false.
C29_LoadingEnds == ui.loading ~> ~ui.loading

\* The generated-app screen has ended its loading without an event.
C29_Witness ==
    /\ ui.screen = "GeneratedApp"
    /\ ~ui.loading
    /\ ui.event = NoEvent

(***************************************************************************)
(* Field errors while typing                                               *)
(***************************************************************************)

\* The fields handleInputChange validates as the organiser types.
CriticalFields == {"name", "start_date", "end_date"}

\* The two maps agree on the entry of the field: both lack it, or both have
\* it with the same message.
SameEntry(before, after, g) ==
    /\ g \in DOMAIN after <=> g \in DOMAIN before
    /\ g \in DOMAIN before /\ g \in DOMAIN after => after[g] = before[g]

\* C30: handleInputChange on field f changes the field-error entry of f
\* only.  For f among name, start_date and end_date the entry of f is there
\* afterwards exactly when validateEventSetup of the form with the new value
\* reports an error for f; for any other f the entry of f is gone.  The
\* entries of all other fields stay as they were, stale or not.  A theme
\* click, which is handleInputChange for primary_color and then for
\* accent_color, removes these two entries and leaves the others.
C30_OnlyOwnEntryChanges ==
    [][(ui.screen = "EventSetup" /\ ui'.screen = "EventSetup" /\ pending' = pending)
           => /\ lastAction'.handler = "handleInputChange"
                     => /\ \A g \in DOMAIN ui.fieldErrors \cup DOMAIN ui'.fieldErrors :
                               g # lastAction'.validated.field
                                   => SameEntry(ui.fieldErrors, ui'.fieldErrors, g)
                        /\ lastAction'.validated.field \in CriticalFields
                               => (lastAction'.validated.field \in DOMAIN ui'.fieldErrors
                                      <=> \E i \in DOMAIN validateEventSetup(ui'.eventData).errors :
                                              validateEventSetup(ui'.eventData).errors[i].field
                                                  = lastAction'.validated.field)
                        /\ lastAction'.validated.field \notin CriticalFields
                               => lastAction'.validated.field \notin DOMAIN ui'.fieldErrors
              /\ lastAction'.handler = "applyColorTheme"
                     => /\ \A g \in DOMAIN ui.fieldErrors \cup DOMAIN ui'.fieldErrors :
                               g \notin {"primary_color", "accent_color"}
                                   => SameEntry(ui.fieldErrors, ui'.fieldErrors, g)
                        /\ DOMAIN ui'.fieldErrors \cap {"primary_color", "accent_color"} = {}]_vars

\* A start date in the past was typed and has its entry; the entry of the
\* end date, set when the end date was before the start date, is still
\* there although the form no longer has an error for end_date.
C30_Witness ==
    /\ ui.screen = "EventSetup"
    /\ lastAction.handler = "handleInputChange"
    /\ lastAction.validated.field = "start_date"
    /\ "start_date" \in DOMAIN ui.fieldErrors
    /\ "end_date" \in DOMAIN ui.fieldErrors
    /\ \A i \in DOMAIN validateEventSetup(ui.eventData).errors :
           validateEventSetup(ui.eventData).errors[i].field # "end_date"

====
